---- MODULE Spec2Model ----
(***************************************************************************)
(* rust-tig: the view stack (src/views/manager.rs), driven with views      *)
(* whose hooks may succeed or fail, the asynchronous result bridge of      *)
(* DiffView and StatusView (src/views/diff_view.rs, status_view.rs), the   *)
(* commit stream of MainView (src/git/walker.rs, src/views/main_view.rs)   *)
(* and HelpView (src/views/help_view.rs).                                  *)
(***************************************************************************)
EXTENDS Integers, Sequences, FiniteSets, TLC

\* ------------------------------------------------------------------ bounds
\* Deepest stack the model builds (push is not offered beyond it).
MaxDepth == 3

\* The titles of the views that are pushed (manager.rs tests: MockView::new(title)).
Titles == {"Main", "Status", "Help"}

\* The Action tags a view's handle_key can return (view.rs:9-36).
Actions == {"None", "Quit", "PushView", "PopView"}

VARIABLES
    view_stack,   \* ViewManager.view_stack: Vec<Box<dyn View>>, last element is current
    pc,           \* position inside the ViewManager call in progress, "idle" between calls
    op,           \* the ViewManager method called last (or in progress)
    arg,          \* the view passed to push/switch
    old_view,     \* the local old_view of pop/switch (the view removed from the stack)
    result,       \* what the last call returned: "none" while running, "ok", "err"
    action,       \* the Action handle_key returned, "-" when none
    calls,        \* the View methods invoked during the call, in order, each with
                  \* the depth of the stack at the time of the invocation
    before        \* view_stack when the call was entered

mvars == <<view_stack, pc, op, arg, old_view, result, action, calls, before>>

\* The asynchronous result bridge of one view (a DiffView or a StatusView),
\* its background units and their channels.
VARIABLES
    self,          \* the view: its fields, or Dropped once the stack has dropped it
    started,       \* result channels created so far (ids 1..started)
    chan,          \* per result channel: the queued messages, and whether its
                   \* receiving end still exists
    task,          \* per load unit: pc, the channel its sender feeds, what it sent
    stage_started, \* refresh-trigger channels created so far
    trig,          \* per refresh-trigger channel: queued pulses, receiving end alive
    stage_task,    \* per stage/unstage unit: pc, stage or unstage, its outcome
    applied        \* id of the query whose result update() consumed last (0: none)

bvars == <<self, started, chan, task, stage_started, trig, stage_task, applied>>

bvars_but_self == <<started, chan, task, stage_started, trig, stage_task, applied>>

\* The commit stream of a MainView (src/git/walker.rs, src/views/main_view.rs)
\* and the render loop the views are updated from (src/main.rs).
VARIABLES
    repo,          \* the repository state the walk reads: its history, and where a
                   \* git call fails, if one does
    chunk_size,    \* CommitWalker.chunk_size
    walker,        \* the unit running CommitWalker::walk: pc, position, local buffer
    cchan,         \* the commit channel: queued chunks, receiving end alive
    covered,       \* whether another view lies on top of the MainView
    drain_trace,   \* history of the commit channel: the chunks in the queue that
                   \* arrived while the MainView was covered (behind), the chunks
                   \* the last MainView::update took (taken), and those of them
                   \* that had arrived while it was covered (taken_behind)
    run_result     \* what run() returned: None while its loop iterates

cvars == <<repo, chunk_size, walker, cchan, covered, drain_trace>>

wvars == <<cvars, run_result>>

\* The application shell (src/ui/app.rs), the event source (src/ui/event.rs)
\* and the loop of run() (src/main.rs).
VARIABLES
    app,           \* App: running, and the kinds of the views on view_manager's stack
    loop,          \* run(): the position in the loop and the event next() gave
    events,        \* the channel of EventHandler: queued events, receiving end alive
    inbox,         \* the messages the units of the current view have sent on its
                   \* channels: how many wait, were sent and were taken by update()
    handled,       \* history of the handlers: the last call of a handle_key,
                   \* handle_action or handle_event: the key given to the shell, the
                   \* Action returned or handled, whether the view was given the
                   \* key, the Result returned, the stack before it, and a bit
                   \* that every call flips
    terminal       \* the terminal of the process: raw mode, alternate screen,
                   \* whether ui::terminal::init changed its mode, and the Result
                   \* of the last ui::terminal::restore

avars == <<app, loop, events, inbox, handled, terminal>>

vars == <<mvars, bvars, wvars, avars>>

\* ------------------------------------------------------------------ views
\* No view: the value of arg/old_view when the call has none.
NoView == [title |-> "-", activated |-> FALSE]

\* MockView::new
MockView_new(t) == [title |-> t, activated |-> FALSE]

\* View::on_activate, as MockView implements it.
on_activate_mut(v) == v

on_activate(v) == [v EXCEPT !.activated = TRUE]

\* View::on_deactivate, as MockView implements it.
on_deactivate_mut(v) == v

on_deactivate(v) == [v EXCEPT !.activated = FALSE]

\* One invocation of a View method: which method, on which view, and how many
\* views the stack held at that moment.
Call(h, v, d) == [hook |-> h, title |-> v.title, depth |-> d]

\* Vec::last / last_mut: the index of the current view.
current_mut_mut(s) == 1

current_mut(s) == Len(s)

\* The stack without its last element (Vec::pop).
Front_mut(s) == SubSeq(s, 2, Len(s))

Front(s) == SubSeq(s, 1, Len(s) - 1)

\* manager.rs:32: pop refuses to remove the last view.
cannot_pop_mut(s) == Len(s) < 1

cannot_pop(s) == Len(s) <= 1

\* The titles of a stack, bottom first.
TitlesOf(s) == [i \in 1..Len(s) |-> s[i].title]

\* ------------------------------------------------------------------ Init
InitManager ==
    /\ view_stack = <<>>
    /\ pc = "idle"
    /\ op = "new"
    /\ arg = NoView
    /\ old_view = NoView
    /\ result = "ok"
    /\ action = "-"
    /\ calls = <<>>
    /\ before = <<>>

\* ------------------------------------------------------------------ push
\* manager.rs:19-22: entry of push(view); the current top, if any, is
\* deactivated; an error of the hook returns at once (the view is dropped).
push_deactivate(view) ==
    /\ pc = "idle"
    /\ Len(view_stack) < MaxDepth
    /\ op' = "push"
    /\ arg' = view
    /\ before' = view_stack
    /\ old_view' = NoView
    /\ action' = "-"
    /\ IF view_stack # <<>>
       THEN LET i == current_mut(view_stack) IN
            /\ calls' = <<Call("on_deactivate", view_stack[i], Len(view_stack))>>
            /\ \E ok \in BOOLEAN :
                 IF ok
                 THEN /\ view_stack' = [view_stack EXCEPT ![i] = on_deactivate(@)]
                      /\ pc' = "push_append"
                      /\ result' = "none"
                 ELSE /\ view_stack' = view_stack
                      /\ pc' = "idle"
                      /\ result' = "err"
       ELSE /\ calls' = <<>>
            /\ view_stack' = view_stack
            /\ pc' = "push_append"
            /\ result' = "none"
    /\ UNCHANGED bvars
    /\ UNCHANGED avars
    /\ UNCHANGED wvars

\* manager.rs:23
push_append_mut ==
    /\ pc = "push_append"
    /\ view_stack' = <<arg>> \o view_stack
    /\ pc' = "push_activate"
    /\ UNCHANGED <<op, arg, old_view, result, action, calls, before>>
    /\ UNCHANGED bvars
    /\ UNCHANGED avars
    /\ UNCHANGED wvars

push_append ==
    /\ pc = "push_append"
    /\ view_stack' = Append(view_stack, arg)
    /\ pc' = "push_activate"
    /\ UNCHANGED <<op, arg, old_view, result, action, calls, before>>
    /\ UNCHANGED bvars
    /\ UNCHANGED avars
    /\ UNCHANGED wvars

\* manager.rs:24-27
push_activate_mut ==
    /\ pc = "push_activate"
    /\ LET i == current_mut(view_stack) IN
       /\ calls' = Append(calls, Call("on_activate", view_stack[i], Len(view_stack)))
       /\ \E ok \in BOOLEAN :
            IF ok
            THEN /\ view_stack' = [view_stack EXCEPT ![i] = on_activate(@)]
                 /\ result' = "ok"
            ELSE /\ view_stack' = Front(view_stack)
                 /\ result' = "err"
    /\ pc' = "idle"
    /\ UNCHANGED <<op, arg, old_view, action, before>>
    /\ UNCHANGED bvars
    /\ UNCHANGED avars
    /\ UNCHANGED wvars

push_activate ==
    /\ pc = "push_activate"
    /\ LET i == current_mut(view_stack) IN
       /\ calls' = Append(calls, Call("on_activate", view_stack[i], Len(view_stack)))
       /\ \E ok \in BOOLEAN :
            IF ok
            THEN /\ view_stack' = [view_stack EXCEPT ![i] = on_activate(@)]
                 /\ result' = "ok"
            ELSE /\ view_stack' = view_stack
                 /\ result' = "err"
    /\ pc' = "idle"
    /\ UNCHANGED <<op, arg, old_view, action, before>>
    /\ UNCHANGED bvars
    /\ UNCHANGED avars
    /\ UNCHANGED wvars

\* ------------------------------------------------------------------ pop
\* manager.rs:31-36: the guard, and the removal of the top into old_view.
pop_remove ==
    /\ pc = "idle"
    /\ op' = "pop"
    /\ arg' = NoView
    /\ before' = view_stack
    /\ action' = "-"
    /\ calls' = <<>>
    /\ IF cannot_pop(view_stack)
       THEN /\ result' = "err"
            /\ pc' = "idle"
            /\ old_view' = NoView
            /\ view_stack' = view_stack
       ELSE /\ result' = "none"
            /\ pc' = "pop_deactivate"
            /\ old_view' = view_stack[Len(view_stack)]
            /\ view_stack' = Front(view_stack)
    /\ UNCHANGED bvars
    /\ UNCHANGED avars
    /\ UNCHANGED wvars

\* manager.rs:36-38: the removed view is deactivated, then dropped.
pop_deactivate ==
    /\ pc = "pop_deactivate"
    /\ calls' = Append(calls, Call("on_deactivate", old_view, Len(view_stack)))
    /\ old_view' = NoView
    /\ \E ok \in BOOLEAN :
         IF ok
         THEN /\ pc' = "pop_activate"
              /\ result' = "none"
         ELSE /\ pc' = "idle"
              /\ result' = "err"
    /\ UNCHANGED <<view_stack, op, arg, action, before>>
    /\ UNCHANGED bvars
    /\ UNCHANGED avars
    /\ UNCHANGED wvars

\* manager.rs:40-44
pop_activate ==
    /\ pc = "pop_activate"
    /\ IF view_stack # <<>>
       THEN LET i == current_mut(view_stack) IN
            /\ calls' = Append(calls, Call("on_activate", view_stack[i], Len(view_stack)))
            /\ \E ok \in BOOLEAN :
                 IF ok
                 THEN /\ view_stack' = [view_stack EXCEPT ![i] = on_activate(@)]
                      /\ result' = "ok"
                 ELSE /\ view_stack' = view_stack
                      /\ result' = "err"
       ELSE /\ calls' = calls
            /\ view_stack' = view_stack
            /\ result' = "ok"
    /\ pc' = "idle"
    /\ UNCHANGED <<op, arg, old_view, action, before>>
    /\ UNCHANGED bvars
    /\ UNCHANGED avars
    /\ UNCHANGED wvars

\* ------------------------------------------------------------------ switch
\* manager.rs:48-49: entry of switch(view); the top, if any, is removed.
switch_remove(view) ==
    /\ pc = "idle"
    /\ op' = "switch"
    /\ arg' = view
    /\ before' = view_stack
    /\ action' = "-"
    /\ calls' = <<>>
    /\ result' = "none"
    /\ IF view_stack # <<>>
       THEN /\ old_view' = view_stack[Len(view_stack)]
            /\ view_stack' = Front(view_stack)
            /\ pc' = "switch_deactivate"
       ELSE /\ old_view' = NoView
            /\ view_stack' = view_stack
            /\ pc' = "switch_append"
    /\ UNCHANGED bvars
    /\ UNCHANGED avars
    /\ UNCHANGED wvars

\* manager.rs:49-51
switch_deactivate ==
    /\ pc = "switch_deactivate"
    /\ calls' = Append(calls, Call("on_deactivate", old_view, Len(view_stack)))
    /\ old_view' = NoView
    /\ \E ok \in BOOLEAN :
         IF ok
         THEN /\ pc' = "switch_append"
              /\ result' = "none"
         ELSE /\ pc' = "idle"
              /\ result' = "err"
    /\ UNCHANGED <<view_stack, op, arg, action, before>>
    /\ UNCHANGED bvars
    /\ UNCHANGED avars
    /\ UNCHANGED wvars

\* manager.rs:52
switch_append ==
    /\ pc = "switch_append"
    /\ view_stack' = Append(view_stack, arg)
    /\ pc' = "switch_activate"
    /\ UNCHANGED <<op, arg, old_view, result, action, calls, before>>
    /\ UNCHANGED bvars
    /\ UNCHANGED avars
    /\ UNCHANGED wvars

\* manager.rs:53-56
switch_activate ==
    /\ pc = "switch_activate"
    /\ LET i == current_mut(view_stack) IN
       /\ calls' = Append(calls, Call("on_activate", view_stack[i], Len(view_stack)))
       /\ \E ok \in BOOLEAN :
            IF ok
            THEN /\ view_stack' = [view_stack EXCEPT ![i] = on_activate(@)]
                 /\ result' = "ok"
            ELSE /\ view_stack' = view_stack
                 /\ result' = "err"
    /\ pc' = "idle"
    /\ UNCHANGED <<op, arg, old_view, action, before>>
    /\ UNCHANGED bvars
    /\ UNCHANGED avars
    /\ UNCHANGED wvars

\* ------------------------------------------------------------------ delegation
\* manager.rs:80-86: the key goes to the current view, whose handle_key
\* returns an Action or an error; on an empty stack the answer is Action::None.
ViewManager_handle_key ==
    /\ pc = "idle"
    /\ op' = "handle_key"
    /\ arg' = NoView
    /\ old_view' = NoView
    /\ before' = view_stack
    /\ IF view_stack # <<>>
       THEN LET i == current_mut(view_stack) IN
            /\ calls' = <<Call("handle_key", view_stack[i], i)>>
            /\ \/ \E a \in Actions : action' = a /\ result' = "ok"
               \/ action' = "-" /\ result' = "err"
       ELSE /\ calls' = <<>>
            /\ action' = "None"
            /\ result' = "ok"
    /\ UNCHANGED <<view_stack, pc>>
    /\ UNCHANGED bvars
    /\ UNCHANGED avars
    /\ UNCHANGED wvars

\* manager.rs:89-95
ViewManager_update ==
    /\ pc = "idle"
    /\ op' = "update"
    /\ arg' = NoView
    /\ old_view' = NoView
    /\ before' = view_stack
    /\ action' = "-"
    /\ IF view_stack # <<>>
       THEN LET i == current_mut(view_stack) IN
            /\ calls' = <<Call("update", view_stack[i], i)>>
            /\ \E ok \in BOOLEAN : result' = IF ok THEN "ok" ELSE "err"
       ELSE /\ calls' = <<>>
            /\ result' = "ok"
    /\ UNCHANGED <<view_stack, pc>>
    /\ UNCHANGED bvars
    /\ UNCHANGED avars
    /\ UNCHANGED wvars

\* manager.rs:98-102
ViewManager_draw ==
    /\ pc = "idle"
    /\ op' = "draw"
    /\ arg' = NoView
    /\ old_view' = NoView
    /\ before' = view_stack
    /\ action' = "-"
    /\ result' = "ok"
    /\ calls' = IF view_stack # <<>>
                THEN <<Call("draw", view_stack[current_mut(view_stack)],
                            current_mut(view_stack))>>
                ELSE <<>>
    /\ UNCHANGED <<view_stack, pc>>
    /\ UNCHANGED bvars
    /\ UNCHANGED avars
    /\ UNCHANGED wvars

\* ================================================================== bridge
\* start_loading calls made on the view (each creates one channel and one unit).
MaxQueries == 2

\* Stage/unstage units spawned by the 'u' key.
MaxStage == 1
\* 'u' presses in a run of the StatusView on its own
StagePresses == 2

\* The page size of PageUp/PageDown (diff_view.rs:346, status_view.rs:286).
PageSize == 20

QueryIds == 1..MaxQueries

StageIds == 1..MaxStage

\* Option<T>
None == <<>>

Some(x) == <<x>>

\* GitError values a query can fail with (error.rs:4-25).
GitErrors == {"Git"}

\* The view after ViewManager::pop / switch dropped its Box (manager.rs:36-38).
Dropped == [kind |-> "Dropped"]

Min(a, b) == IF a < b THEN a ELSE b

\* usize::saturating_sub
saturating_sub(a, b) == IF a > b THEN a - b ELSE 0

RECURSIVE Flatten(_)
\* Concatenation of a sequence of sequences (the nested pushes of the renderers).
Flatten(ss) == IF ss = <<>> THEN <<>> ELSE Head(ss) \o Flatten(Tail(ss))

\* ------------------------------------------------------------------ channels
\* mpsc::unbounded_channel(): an empty queue with both ends alive.
unbounded_channel == [queue |-> <<>>, rx |-> TRUE]

\* Dropping a receiving end: the channel closes and its queued messages go.
drop_rx(c) == [queue |-> <<>>, rx |-> FALSE]

\* A load unit that was never spawned.
NoTask == [pc |-> "none", kind |-> "-", tx |-> 0, sends |-> 0, sent |-> "-", saw |-> 0]

\* A stage/unstage unit that was never spawned.
NoStageTask == [pc |-> "none", stage |-> FALSE, ok |-> TRUE, sends |-> 0, sent |-> "-"]

\* start_loading that keeps the channel already stored instead of replacing it.
start_query_mut(kind, old) ==
    LET q == started + 1
        c == IF old = None THEN q ELSE old[1]
    IN  [ rx |-> c,
          started |-> q,
          chan |-> [chan EXCEPT ![c] = IF old = None THEN unbounded_channel ELSE @],
          task |-> [task EXCEPT ![q] =
                      [pc |-> "running", kind |-> kind, tx |-> c, sends |-> 0, sent |-> "-", saw |-> 0]] ]

\* The channel and unit part of start_loading (diff_view.rs:88-89,95-109;
\* status_view.rs:101-102,107-112): a fresh channel whose receiving end the view
\* will store, the receiving end stored before is dropped, and one unit holding
\* the sending end is spawned.  Gives the id of the receiving end to store.
start_query(kind, old) ==
    LET q == started + 1 IN
    [ rx |-> q,
      started |-> q,
      chan |-> [c \in QueryIds |->
                   IF c = q THEN unbounded_channel
                   ELSE IF Some(c) = old THEN drop_rx(chan[c])
                   ELSE chan[c]],
      task |-> [task EXCEPT ![q] =
                   [pc |-> "running", kind |-> kind, tx |-> q, sends |-> 0, sent |-> "-", saw |-> 0]] ]

\* `tx.send(result).unwrap()`: a failed send ends the unit by a panic.
after_send_mut(send_ok) == IF send_ok THEN "done" ELSE "panicked"

\* `let _ = tx.send(result)`: the unit ends whether or not the send succeeded
\* (diff_view.rs:108, status_view.rs:111, status_view.rs:365).
after_send(send_ok) == "done"

\* ------------------------------------------------------------------ render loop
\* The value a view's update() returns, given what its receive attempt found
\* (None: nothing, Some(ok): a result): a failure that propagates with `?`.
update_result_mut(recv) == IF recv = Some(FALSE) THEN "Err" ELSE "Ok"

\* The value a view's update() returns: the `Ok(())` that ends it whatever the
\* receive attempt found (diff_view.rs:377, status_view.rs:405,
\* main_view.rs:350, help_view.rs:273).
update_result(recv) == "Ok"

\* run() after the update() of the current view returned r: ViewManager::update
\* (manager.rs:90-92), App::update (app.rs:138) and the loop of run()
\* (main.rs:43) each pass an Err on with `?`, which ends the loop.
run_after_update(r) ==
    IF run_result # None THEN run_result
    ELSE IF r = "Ok" THEN None ELSE Some(r)

\* ------------------------------------------------------------------ diff model
\* git::Diff values the backend can return: no file, one text file with one
\* hunk of three lines, one binary file.
TextFile ==
    [old_path |-> Some("a"), new_path |-> Some("a"), is_binary |-> FALSE,
     hunks |-> << [header |-> "@@ -1,2 +1,2 @@",
                   lines |-> <<"Context", "Deletion", "Addition">>] >>]

BinaryFile ==
    [old_path |-> None, new_path |-> Some("b"), is_binary |-> TRUE, hunks |-> <<>>]

Diffs == { [files |-> <<>>], [files |-> <<TextFile>>], [files |-> <<BinaryFile, TextFile>>] }

\* DiffSource (diff_view.rs:18-22)
DiffSources == {"Commit", "StagedFile", "UnstagedFile"}

\* diff_view.rs:235-249
render_hunk_to_lines(hunk) == <<"hunk-header">> \o hunk.lines

\* diff_view.rs:188-232
render_file_to_lines(file) ==
    <<"diff --git", "stats">>
    \o (IF file.is_binary
        THEN <<"Binary file", "">>
        ELSE Flatten([i \in 1..Len(file.hunks) |-> render_hunk_to_lines(file.hunks[i])])
             \o <<"">>)

\* diff_view.rs:113-185
render_diff_to_lines(source, diff) ==
    (IF source = "Commit" THEN <<"commit", "summary">>
     ELSE IF source = "StagedFile" THEN <<"Staged changes: ">>
     ELSE <<"Unstaged changes: ">>)
    \o <<"">>
    \o Flatten([i \in 1..Len(diff.files) |-> render_file_to_lines(diff.files[i])])
    \o <<"", "file(s) changed">>

\* DiffView::new / new_staged / new_unstaged (diff_view.rs:39-84)
DiffView_new(source) ==
    [kind |-> "Diff", source |-> source, diff |-> None, lines |-> <<>>,
     scroll_offset |-> 0, loading |-> FALSE, error |-> None, receiver |-> None]

\* A scroll_down without the clamp.
DiffView_scroll_down_mut(v, amount) ==
    [v EXCEPT !.scroll_offset = v.scroll_offset + amount]

\* diff_view.rs:294-297
DiffView_scroll_down(v, amount) ==
    [v EXCEPT !.scroll_offset =
        Min(v.scroll_offset + amount, saturating_sub(Len(v.lines), 1))]

\* diff_view.rs:300-302
DiffView_scroll_up(v, amount) ==
    [v EXCEPT !.scroll_offset = saturating_sub(v.scroll_offset, amount)]

\* diff_view.rs:305-307
DiffView_scroll_to_top(v) == [v EXCEPT !.scroll_offset = 0]

\* diff_view.rs:310-312
DiffView_scroll_to_bottom(v) ==
    [v EXCEPT !.scroll_offset = saturating_sub(Len(v.lines), 1)]

DiffKeys == {"q", "Esc", "j", "k", "g", "G", "PageDown", "PageUp", "?", "x"}

\* The new values of the variables a start_loading call changes.
Started(r) ==
    /\ self' = r.view
    /\ started' = r.started
    /\ chan' = r.chan
    /\ task' = r.task

\* diff_view.rs:87-110
DiffView_start_loading(v) ==
    LET r == start_query("Diff", v.receiver) IN
    [view |-> [v EXCEPT !.receiver = Some(r.rx), !.loading = TRUE],
     started |-> r.started, chan |-> r.chan, task |-> r.task]

\* A direct call of the public DiffView::start_loading (diff_view.rs:87,
\* as its tests do at diff_view.rs:507).
DiffView_call_start_loading ==
    /\ self.kind = "Diff"
    /\ started < MaxQueries
    /\ Started(DiffView_start_loading(self))
    /\ UNCHANGED <<stage_started, trig, stage_task, applied>>
    /\ UNCHANGED mvars
    /\ UNCHANGED avars
    /\ UNCHANGED wvars

\* An on_activate that does not look at the model.
DiffView_on_activate_effect_mut ==
    IF ~self.loading
    THEN /\ started < MaxQueries
         /\ Started(DiffView_start_loading(self))
    ELSE UNCHANGED <<self, started, chan, task>>

\* DiffView::on_activate (diff_view.rs:454-460)
DiffView_on_activate_effect ==
    IF self.diff = None /\ ~self.loading
    THEN /\ started < MaxQueries
         /\ Started(DiffView_start_loading(self))
    ELSE UNCHANGED <<self, started, chan, task>>

\* ViewManager::push of the DiffView (manager.rs:23-26): it is activated
\* while it is on top.
DiffView_on_activate ==
    /\ self.kind = "Diff"
    /\ ~covered
    /\ DiffView_on_activate_effect
    /\ UNCHANGED <<stage_started, trig, stage_task, applied>>
    /\ UNCHANGED mvars
    /\ UNCHANGED avars
    /\ UNCHANGED wvars

\* diff_view.rs:326-359: the Action handle_key returns.
DiffView_key_action(v, key) ==
    CASE key \in {"q", "Esc"} -> [type |-> "PopView"]
      [] key = "?" -> [type |-> "PushView", view_type |-> "Help"]
      [] OTHER -> [type |-> "None"]

\* diff_view.rs:326-359: what handle_key does to the view.
DiffView_handle_key(key) ==
    /\ self.kind = "Diff"
    /\ ~covered
    /\ self' = CASE key = "j" -> DiffView_scroll_down(self, 1)
                 [] key = "k" -> DiffView_scroll_up(self, 1)
                 [] key = "g" -> DiffView_scroll_to_top(self)
                 [] key = "G" -> DiffView_scroll_to_bottom(self)
                 [] key = "PageDown" -> DiffView_scroll_down(self, PageSize)
                 [] key = "PageUp" -> DiffView_scroll_up(self, PageSize)
                 [] OTHER -> self
    /\ UNCHANGED <<started, chan, task, stage_started, trig, stage_task, applied>>
    /\ UNCHANGED mvars
    /\ UNCHANGED avars
    /\ UNCHANGED wvars

\* An update that forgets `self.loading = false` when the result is an error.
DiffView_update_mut ==
    /\ self.kind = "Diff"
    /\ ~covered
    /\ IF self.receiver # None /\ chan[self.receiver[1]].queue # <<>>
       THEN LET c == self.receiver[1]
                m == Head(chan[c].queue)
            IN  /\ chan' = [chan EXCEPT ![c].queue = Tail(@)]
                /\ applied' = m.q
                /\ self' = IF m.ok
                           THEN [self EXCEPT !.loading = FALSE,
                                             !.lines = render_diff_to_lines(self.source, m.val),
                                             !.diff = Some(m.val)]
                           ELSE [self EXCEPT !.error = Some(<<"Failed to load diff: ", m.val>>)]
       ELSE UNCHANGED <<self, chan, applied>>
    /\ run_result' = run_after_update(update_result(
            IF self.receiver # None /\ chan[self.receiver[1]].queue # <<>>
            THEN Some(Head(chan[self.receiver[1]].queue).ok) ELSE None))
    /\ UNCHANGED <<started, task, stage_started, trig, stage_task>>
    /\ UNCHANGED mvars
    /\ UNCHANGED avars
    /\ UNCHANGED cvars

\* diff_view.rs:361-378
DiffView_update ==
    /\ self.kind = "Diff"
    /\ ~covered
    /\ IF self.receiver # None /\ chan[self.receiver[1]].queue # <<>>
       THEN LET c == self.receiver[1]
                m == Head(chan[c].queue)
            IN  /\ chan' = [chan EXCEPT ![c].queue = Tail(@)]
                /\ applied' = m.q
                /\ self' = IF m.ok
                           THEN [self EXCEPT !.loading = FALSE,
                                             !.lines = render_diff_to_lines(self.source, m.val),
                                             !.diff = Some(m.val)]
                           ELSE [self EXCEPT !.loading = FALSE,
                                             !.error = Some(<<"Failed to load diff: ", m.val>>)]
       ELSE UNCHANGED <<self, chan, applied>>
    /\ run_result' = run_after_update(update_result(
            IF self.receiver # None /\ chan[self.receiver[1]].queue # <<>>
            THEN Some(Head(chan[self.receiver[1]].queue).ok) ELSE None))
    /\ UNCHANGED <<started, task, stage_started, trig, stage_task>>
    /\ UNCHANGED mvars
    /\ UNCHANGED avars
    /\ UNCHANGED cvars

\* ------------------------------------------------------------------ status model
\* git::Status values the backend can return (status.rs:115-120).
Entry(p, st) == [path |-> p, status |-> st]

NoChanges == [staged |-> <<>>, unstaged |-> <<>>, untracked |-> <<>>, conflicted |-> <<>>]

Statuses ==
    { NoChanges,
      [staged |-> <<Entry("a", "IndexModified")>>,
       unstaged |-> <<Entry("b", "WorktreeModified")>>,
       untracked |-> <<>>, conflicted |-> <<>>],
      [staged |-> <<>>, unstaged |-> <<>>,
       untracked |-> <<Entry("a", "WorktreeNew")>>,
       conflicted |-> <<>>] }

\* DisplayItem::header (status_view.rs:52-58)
DisplayItem_header(section) == [section |-> section, entry |-> None, is_header |-> TRUE]

\* DisplayItem::entry (status_view.rs:60-66)
DisplayItem_entry(section, e) == [section |-> section, entry |-> Some(e), is_header |-> FALSE]

\* One section of build_items: a header and its entries, when it has any.
section_items(section, entries) ==
    IF entries = <<>> THEN <<>>
    ELSE <<DisplayItem_header(section)>>
         \o [i \in 1..Len(entries) |-> DisplayItem_entry(section, entries[i])]

\* status_view.rs:116-161 (the selection stays as it is unless it is None)
build_items(v) ==
    LET items == IF v.status = None THEN <<>>
                 ELSE LET s == v.status[1] IN
                      section_items("Staged", s.staged)
                      \o section_items("Unstaged", s.unstaged)
                      \o section_items("Untracked", s.untracked)
                      \o section_items("Conflicted", s.conflicted)
    IN  [v EXCEPT !.items = items,
                  !.selected = IF items # <<>> /\ v.selected = None THEN Some(0) ELSE @]

\* StatusView::new (status_view.rs:83-97)
StatusView_new ==
    [kind |-> "Status", status |-> None, items |-> <<>>, selected |-> Some(0),
     loading |-> FALSE, error |-> None, receiver |-> None, refresh_trigger |-> None]

\* status_view.rs:164-168
selected_item(v) ==
    IF v.selected # None /\ v.selected[1] < Len(v.items)
    THEN Some(v.items[v.selected[1] + 1])
    ELSE None

\* status_view.rs:171-183
select_previous(v) ==
    [v EXCEPT !.selected = IF @ = None THEN Some(0)
                           ELSE IF @[1] = 0 THEN Some(0) ELSE Some(@[1] - 1)]

\* status_view.rs:186-199
select_next(v) ==
    [v EXCEPT !.selected = IF @ = None THEN Some(0)
                           ELSE IF @[1] >= saturating_sub(Len(v.items), 1) THEN Some(@[1])
                           ELSE Some(@[1] + 1)]

\* status_view.rs:202-206
select_first(v) == IF v.items # <<>> THEN [v EXCEPT !.selected = Some(0)] ELSE v

\* status_view.rs:209-213
select_last(v) ==
    IF v.items # <<>> THEN [v EXCEPT !.selected = Some(Len(v.items) - 1)] ELSE v

\* status_view.rs:216-222
page_up(v, page_size) ==
    [v EXCEPT !.selected = IF @ = None THEN Some(0)
                           ELSE Some(saturating_sub(@[1], page_size))]

\* status_view.rs:225-232
page_down(v, page_size) ==
    [v EXCEPT !.selected = IF @ = None THEN Some(0)
                           ELSE Some(Min(@[1] + page_size, saturating_sub(Len(v.items), 1)))]

StatusKeys == {"q", "j", "k", "g", "G", "PageUp", "PageDown", "r", "Enter", "u", "?", "x"}

\* A start_loading that also throws the snapshot away.
StatusView_start_loading_mut(v) ==
    LET r == start_query("Status", v.receiver) IN
    [view |-> [v EXCEPT !.receiver = Some(r.rx), !.loading = TRUE,
                        !.status = None, !.items = <<>>],
     started |-> r.started, chan |-> r.chan, task |-> r.task]

\* status_view.rs:100-113
StatusView_start_loading(v) ==
    LET r == start_query("Status", v.receiver) IN
    [view |-> [v EXCEPT !.receiver = Some(r.rx), !.loading = TRUE],
     started |-> r.started, chan |-> r.chan, task |-> r.task]

\* A direct call of the public StatusView::start_loading (status_view.rs:100,
\* as its tests do at status_view.rs:516).
StatusView_call_start_loading ==
    /\ self.kind = "Status"
    /\ started < MaxQueries
    /\ Started(StatusView_start_loading(self))
    /\ UNCHANGED <<stage_started, trig, stage_task, applied>>
    /\ UNCHANGED mvars
    /\ UNCHANGED avars
    /\ UNCHANGED wvars

\* An on_activate that starts nothing.
StatusView_on_activate_effect_mut == UNCHANGED <<self, started, chan, task>>

\* StatusView::on_activate (status_view.rs:466-472)
StatusView_on_activate_effect ==
    IF self.status = None /\ ~self.loading
    THEN /\ started < MaxQueries
         /\ Started(StatusView_start_loading(self))
    ELSE UNCHANGED <<self, started, chan, task>>

\* ViewManager::push of the StatusView (manager.rs:23-26): it is activated
\* while it is on top.
StatusView_on_activate ==
    /\ self.kind = "Status"
    /\ ~covered
    /\ StatusView_on_activate_effect
    /\ UNCHANGED <<stage_started, trig, stage_task, applied>>
    /\ UNCHANGED mvars
    /\ UNCHANGED avars
    /\ UNCHANGED wvars

\* Whether 'u' or Enter act: the selection is on a file entry (status_view.rs:300-302,330-332).
on_file_entry(v) ==
    /\ selected_item(v) # None
    /\ ~selected_item(v)[1].is_header
    /\ selected_item(v)[1].entry # None

\* status_view.rs:293-297: 'r' refreshes.
StatusView_key_r ==
    /\ self.kind = "Status"
    /\ ~covered
    /\ started < MaxQueries
    /\ Started(StatusView_start_loading(self))
    /\ UNCHANGED <<stage_started, trig, stage_task, applied>>
    /\ UNCHANGED mvars
    /\ UNCHANGED avars
    /\ UNCHANGED wvars

\* status_view.rs:328-371: 'u' on a file entry stores a new refresh trigger
\* (dropping the one stored before), clears the error and spawns a unit that
\* stages or unstages the file and then signals; elsewhere it does nothing.
StatusView_key_u ==
    /\ self.kind = "Status"
    /\ ~covered
    /\ IF on_file_entry(self)
       THEN LET item == selected_item(self)[1]
                should_stage == item.section \in {"Unstaged", "Untracked"}
                k == stage_started + 1
            IN  /\ stage_started < Cardinality(DOMAIN stage_task)
                /\ stage_started' = k
                /\ trig' = [t \in DOMAIN trig |->
                              IF t = k THEN unbounded_channel
                              ELSE IF Some(t) = self.refresh_trigger THEN drop_rx(trig[t])
                              ELSE trig[t]]
                /\ self' = [self EXCEPT !.refresh_trigger = Some(k), !.error = None]
                /\ stage_task' = [stage_task EXCEPT ![k] =
                                    [pc |-> "running", stage |-> should_stage,
                                     ok |-> TRUE, sends |-> 0, sent |-> "-"]]
       ELSE UNCHANGED <<self, stage_started, trig, stage_task>>
    /\ UNCHANGED <<started, chan, task, applied>>
    /\ UNCHANGED mvars
    /\ UNCHANGED avars
    /\ UNCHANGED wvars

\* status_view.rs:266-378: the Action handle_key returns.
StatusView_key_action(v, key) ==
    CASE key = "q" -> [type |-> "Quit"]
      [] key = "?" -> [type |-> "PushView", view_type |-> "Help"]
      [] key = "Enter" /\ on_file_entry(v) ->
           LET item == selected_item(v)[1] IN
           [type |-> IF item.section = "Staged" THEN "OpenStagedDiff"
                     ELSE "OpenUnstagedDiff",
            path |-> item.entry[1].path]
      [] OTHER -> [type |-> "None"]

\* status_view.rs:266-292,298-327,372-377: the keys that start no unit.
StatusView_handle_key(key) ==
    /\ self.kind = "Status"
    /\ ~covered
    /\ key \notin {"r", "u"}
    /\ self' = CASE key = "j" -> select_next(self)
                 [] key = "k" -> select_previous(self)
                 [] key = "g" -> select_first(self)
                 [] key = "G" -> select_last(self)
                 [] key = "PageUp" -> page_up(self, PageSize)
                 [] key = "PageDown" -> page_down(self, PageSize)
                 [] OTHER -> self
    /\ UNCHANGED <<started, chan, task, stage_started, trig, stage_task, applied>>
    /\ UNCHANGED mvars
    /\ UNCHANGED avars
    /\ UNCHANGED wvars

\* status_view.rs:380-406
StatusView_update ==
    /\ self.kind = "Status"
    /\ ~covered
    /\ LET fired == /\ self.refresh_trigger # None
                    /\ trig[self.refresh_trigger[1]].queue # <<>>
           \* status_view.rs:382-388
           s1 == IF fired
                 THEN StatusView_start_loading([self EXCEPT !.refresh_trigger = None])
                 ELSE [view |-> self, started |-> started, chan |-> chan, task |-> task]
           v1 == s1.view
           got == v1.receiver # None /\ s1.chan[v1.receiver[1]].queue # <<>>
       IN  /\ fired => started < MaxQueries
           /\ trig' = IF fired
                      THEN [trig EXCEPT ![self.refresh_trigger[1]] = drop_rx(@)]
                      ELSE trig
           /\ started' = s1.started
           /\ task' = s1.task
           /\ run_result' = run_after_update(update_result(
                   IF got THEN Some(Head(s1.chan[v1.receiver[1]].queue).ok) ELSE None))
           \* status_view.rs:391-404
           /\ IF got
              THEN LET c == v1.receiver[1]
                       m == Head(s1.chan[c].queue)
                   IN  /\ chan' = [s1.chan EXCEPT ![c].queue = Tail(@)]
                       /\ applied' = m.q
                       /\ self' = IF m.ok
                                  THEN build_items([v1 EXCEPT !.loading = FALSE,
                                                              !.status = Some(m.val)])
                                  ELSE [v1 EXCEPT !.loading = FALSE,
                                                  !.error = Some(<<"Failed to load status: ", m.val>>)]
              ELSE /\ chan' = s1.chan
                   /\ applied' = applied
                   /\ self' = v1
    /\ UNCHANGED <<stage_started, stage_task>>
    /\ UNCHANGED mvars
    /\ UNCHANGED avars
    /\ UNCHANGED cvars

\* ------------------------------------------------------------------ draw
\* A draw that shows the content as soon as there is a diff.
DiffView_draw_mut(v) ==
    IF v.loading THEN "loading"
    ELSE IF v.diff # None THEN "content"
    ELSE IF v.error # None THEN "error"
    ELSE "content"

\* DiffView::draw (diff_view.rs:384-401): the panel that is rendered.  The
\* loading panel and the error panel each return before the content.
DiffView_draw(v) ==
    IF v.loading THEN "loading"
    ELSE IF v.error # None THEN "error"
    ELSE "content"

\* StatusView::draw (status_view.rs:409-431): the loading panel only while
\* there is no snapshot, then the error panel, then the list.
StatusView_draw(v) ==
    IF v.loading /\ v.status = None THEN "loading"
    ELSE IF v.error # None THEN "error"
    ELSE "content"

\* ------------------------------------------------------------------ units
\* Ghost: the stage/unstage units whose mutation has run, which is what a
\* get_status reading the repository at this moment reflects.
mutations_done ==
    Cardinality({k \in DOMAIN stage_task : stage_task[k].pc \notin {"none", "running"}})

\* The spawned block of start_loading (diff_view.rs:95-109, status_view.rs:107-112):
\* the query runs, its Result is sent once on the unit's sender, whatever the
\* outcome of the send, and the unit ends.  `saw` records how many mutations
\* had run when the query read the repository.
load_unit(q) ==
    /\ task[q].pc = "running"
    /\ \E ok \in BOOLEAN :
       \E val \in (IF ~ok THEN GitErrors
                   ELSE IF task[q].kind = "Diff" THEN Diffs ELSE Statuses) :
         LET c == task[q].tx
             send_ok == chan[c].rx
         IN  /\ chan' = IF send_ok
                        THEN [chan EXCEPT ![c].queue = Append(@, [q |-> q, ok |-> ok, val |-> val])]
                        ELSE chan
             /\ task' = [task EXCEPT ![q].pc = after_send(send_ok),
                                     ![q].sends = @ + 1,
                                     ![q].sent = IF send_ok THEN "delivered" ELSE "closed",
                                     ![q].saw = mutations_done]
    /\ UNCHANGED <<self, started, stage_started, trig, stage_task, applied>>
    /\ UNCHANGED mvars
    /\ UNCHANGED avars
    /\ UNCHANGED wvars

\* A unit that signals only after a mutation that succeeded.
sends_pulse_mut(ok) == ok

\* status_view.rs:358-365: the failure is printed and the unit goes on to
\* `let _ = tx.send(())`, which is outside the `if let Err(e)`.
sends_pulse(ok) == TRUE

\* A unit that writes the failure into the view's error field.
stage_unit_mut(k) ==
    /\ stage_task[k].pc = "running"
    /\ \E ok \in BOOLEAN :
         LET send_ok == trig[k].rx IN
         /\ trig' = IF send_ok THEN [trig EXCEPT ![k].queue = Append(@, "()")] ELSE trig
         /\ stage_task' = [stage_task EXCEPT ![k].pc = after_send(send_ok),
                                             ![k].ok = ok,
                                             ![k].sends = @ + 1,
                                             ![k].sent = IF send_ok THEN "delivered" ELSE "closed"]
         /\ self' = IF ok \/ self.kind # "Status" THEN self
                    ELSE [self EXCEPT !.error = Some(<<"Failed to stage/unstage">>)]
    /\ UNCHANGED <<started, chan, task, stage_started, applied>>
    /\ UNCHANGED mvars
    /\ UNCHANGED avars
    /\ UNCHANGED wvars

\* The spawned block of the 'u' key (status_view.rs:351-366): stage_file or
\* unstage_file runs, a failure is only printed, and the pulse is sent.
stage_unit(k) ==
    /\ stage_task[k].pc = "running"
    /\ \E ok \in BOOLEAN :
         LET send_ok == trig[k].rx IN
         /\ trig' = IF send_ok /\ sends_pulse(ok)
                    THEN [trig EXCEPT ![k].queue = Append(@, "()")] ELSE trig
         /\ stage_task' = [stage_task EXCEPT ![k].pc = after_send(send_ok),
                                             ![k].ok = ok,
                                             ![k].sends = IF sends_pulse(ok) THEN @ + 1 ELSE @,
                                             ![k].sent = IF ~sends_pulse(ok) THEN "-"
                                                         ELSE IF send_ok THEN "delivered"
                                                         ELSE "closed"]
    /\ UNCHANGED <<self, started, chan, task, stage_started, applied>>
    /\ UNCHANGED mvars
    /\ UNCHANGED avars
    /\ UNCHANGED wvars

\* manager.rs:36-38 / 49-51: the popped view is dropped at the end of the
\* block, and with it the receiving ends it stores.
drop_view ==
    /\ self.kind # "Dropped"
    /\ self' = Dropped
    /\ chan' = [c \in QueryIds |->
                  IF self.kind \in {"Diff", "Status"} /\ Some(c) = self.receiver
                  THEN drop_rx(chan[c]) ELSE chan[c]]
    /\ trig' = IF self.kind = "Status"
               THEN [t \in DOMAIN trig |->
                       IF Some(t) = self.refresh_trigger THEN drop_rx(trig[t]) ELSE trig[t]]
               ELSE trig
    /\ cchan' = IF self.kind = "Main" THEN drop_rx(cchan) ELSE cchan
    /\ UNCHANGED <<started, task, stage_started, stage_task, applied>>
    /\ drain_trace' = IF self.kind = "Main" THEN [drain_trace EXCEPT !.behind = 0]
                      ELSE drain_trace
    /\ UNCHANGED <<repo, chunk_size, walker, covered, run_result>>
    /\ UNCHANGED mvars
    /\ UNCHANGED avars

\* ------------------------------------------------------------------ Init
\* No view under observation (the value of the bridge while the stack is checked).
NoBridge ==
    /\ self = Dropped
    /\ started = 0
    /\ chan = [c \in QueryIds |-> drop_rx(unbounded_channel)]
    /\ task = [q \in QueryIds |-> NoTask]
    /\ stage_started = 0
    /\ trig = [t \in StageIds |-> drop_rx(unbounded_channel)]
    /\ stage_task = [k \in StageIds |-> NoStageTask]
    /\ applied = 0

\* A freshly constructed DiffView (of any source) or StatusView.
InitBridge ==
    /\ self \in {DiffView_new(s) : s \in DiffSources} \cup {StatusView_new}
    /\ started = 0
    /\ chan = [c \in QueryIds |-> drop_rx(unbounded_channel)]
    /\ task = [q \in QueryIds |-> NoTask]
    /\ stage_started = 0
    /\ trig = [t \in StageIds |-> drop_rx(unbounded_channel)]
    /\ stage_task = [k \in StageIds |-> NoStageTask]
    /\ applied = 0

NextBridge ==
    \/ DiffView_call_start_loading
    \/ DiffView_on_activate
    \/ \E key \in DiffKeys : DiffView_handle_key(key)
    \/ DiffView_update
    \/ StatusView_call_start_loading
    \/ StatusView_on_activate
    \/ StatusView_key_r
    \/ StatusView_key_u
    \/ \E key \in StatusKeys : StatusView_handle_key(key)
    \/ StatusView_update
    \/ \E q \in QueryIds : load_unit(q)
    \/ \E k \in StageIds : stage_unit(k)
    \/ drop_view

\* ================================================================== commit stream
\* Commits of the longest history walked.
MaxCommits == 5

\* Largest chunk size a walker is given.
MaxChunk == 3

\* The lines HelpView::build_help_lines returns (help_view.rs:29-216).
HelpLines == 50

\* Repository states: a history of k commits in revwalk order (commit i is the
\* i-th the revwalk yields), and the place where git fails: None for no
\* failure, Some(0) while the repository is opened and the revwalk set up
\* (walker.rs:33,49-51), Some(i) at the i-th commit (walker.rs:56-59).
Repos ==
    { [history |-> [i \in 1..k |-> i], fail |-> f] :
        k \in 0..MaxCommits, f \in {None} \cup {Some(i) : i \in 0..MaxCommits} }

\* The states among them whose failure lies inside the history.
ValidRepos == {r \in Repos : r.fail = None \/ r.fail[1] <= Len(r.history)}

\* CommitWalker::load_all (walker.rs:91-132): the whole history at once, or the
\* error of the first git call that fails.
load_all(r) ==
    IF r.fail = None THEN [ok |-> TRUE, val |-> r.history]
    ELSE [ok |-> FALSE, val |-> "Git"]

\* No walk was spawned.
NoWalker ==
    [pc |-> "none", next |-> 1, commits |-> <<>>, result |-> None,
     sent |-> <<>>, refused |-> 0]

\* The unit MainView::start_loading spawns (main_view.rs:61-65), at the start
\* of CommitWalker::walk (walker.rs:28-52).
spawn_walk ==
    [pc |-> "walking", next |-> 1, commits |-> <<>>, result |-> None,
     sent |-> <<>>, refused |-> 0]

\* A buffer that counts as full only once it exceeds chunk_size.
chunk_full_mut(buf) == Len(buf) > chunk_size

\* walker.rs:67: `commits.len() >= chunk_size`
chunk_full(buf) == Len(buf) >= chunk_size

\* A sent chunk that stays in the buffer (no `commits.clear()`).
chunk_sent_mut(w, buf) ==
    [w EXCEPT !.next = @ + 1, !.commits = buf, !.sent = Append(@, buf)]

\* walker.rs:68,71: the send of the full buffer succeeded, the buffer is cleared.
chunk_sent(w, buf) ==
    [w EXCEPT !.next = @ + 1, !.commits = <<>>, !.sent = Append(@, buf)]

\* `tx.send(commits.clone()).unwrap()`: a refused send panics.
send_refused_mut(w, buf) ==
    [w EXCEPT !.pc = "panicked", !.commits = buf, !.refused = @ + 1]

\* walker.rs:68-70: the send of the full buffer failed (receiver dropped):
\* `break`, with the buffer as it is.
send_refused(w, buf) ==
    [w EXCEPT !.pc = "remaining", !.commits = buf, !.refused = @ + 1]

\* One iteration of `for oid in revwalk` (walker.rs:55-73), with the set-up
\* before the first (walker.rs:33-53): an error of a git call returns it through
\* `?` and the buffer is lost; the end of the revwalk leaves the loop.
walk_next ==
    /\ walker.pc = "walking"
    /\ LET w == walker
           buf == Append(w.commits, repo.history[w.next])
       IN  IF repo.fail = Some(0) \/ (w.next <= Len(repo.history) /\ repo.fail = Some(w.next))
           THEN /\ walker' = [w EXCEPT !.pc = "done", !.commits = <<>>, !.result = Some("Err")]
                /\ cchan' = cchan
           ELSE IF w.next > Len(repo.history)
           THEN /\ walker' = [w EXCEPT !.pc = "remaining"]
                /\ cchan' = cchan
           ELSE IF ~chunk_full(buf)
           THEN /\ walker' = [w EXCEPT !.next = @ + 1, !.commits = buf]
                /\ cchan' = cchan
           ELSE IF cchan.rx
           THEN /\ walker' = chunk_sent(w, buf)
                /\ cchan' = [cchan EXCEPT !.queue = Append(@, buf)]
           ELSE /\ walker' = send_refused(w, buf)
                /\ cchan' = cchan
    /\ drain_trace' = IF covered /\ Len(cchan'.queue) > Len(cchan.queue)
                      THEN [drain_trace EXCEPT !.behind = @ + 1]
                      ELSE drain_trace
    /\ UNCHANGED <<repo, chunk_size, covered, run_result>>
    /\ UNCHANGED mvars
    /\ UNCHANGED avars
    /\ UNCHANGED bvars

\* walker.rs:76-81 and main_view.rs:62-64: what is left in the buffer is sent,
\* whatever the send gives, walk returns Ok and the unit ends.
walk_remaining ==
    /\ walker.pc = "remaining"
    /\ LET w == walker
           send_ok == cchan.rx
       IN  IF w.commits # <<>>
           THEN /\ cchan' = IF send_ok THEN [cchan EXCEPT !.queue = Append(@, w.commits)]
                            ELSE cchan
                /\ walker' = [w EXCEPT !.pc = "done", !.commits = <<>>,
                                       !.result = Some("Ok"),
                                       !.sent = IF send_ok THEN Append(@, w.commits) ELSE @,
                                       !.refused = IF send_ok THEN @ ELSE @ + 1]
           ELSE /\ cchan' = cchan
                /\ walker' = [w EXCEPT !.pc = "done", !.result = Some("Ok")]
    /\ drain_trace' = IF covered /\ Len(cchan'.queue) > Len(cchan.queue)
                      THEN [drain_trace EXCEPT !.behind = @ + 1]
                      ELSE drain_trace
    /\ UNCHANGED <<repo, chunk_size, covered, run_result>>
    /\ UNCHANGED mvars
    /\ UNCHANGED avars
    /\ UNCHANGED bvars

\* ------------------------------------------------------------------ main view
\* MainView::new (main_view.rs:36-51); commits are named by their place in the
\* history, selected is table_state.selected().
MainView_new ==
    [kind |-> "Main", commits |-> <<>>, filtered_commits |-> <<>>, selected |-> Some(0),
     loading |-> FALSE, error |-> None, receiver |-> None,
     search_mode |-> "Inactive", search_query |-> <<>>]

\* MainView::start_loading (main_view.rs:54-66): a new commit channel whose
\* receiving end the view stores, loading set, and a walker spawned on the
\* sending end.
MainView_start_loading ==
    /\ self' = [self EXCEPT !.receiver = Some("commits"), !.loading = TRUE]
    /\ cchan' = unbounded_channel
    /\ walker' = spawn_walk

\* An on_activate that looks at the commits only.
MainView_on_activate_effect_mut ==
    IF self.commits = <<>>
    THEN MainView_start_loading
    ELSE UNCHANGED <<self, cchan, walker>>

\* MainView::on_activate (main_view.rs:434-440)
MainView_on_activate_effect ==
    IF self.commits = <<>> /\ ~self.loading
    THEN MainView_start_loading
    ELSE UNCHANGED <<self, cchan, walker>>

\* ViewManager::push of the MainView (app.rs:45-46, manager.rs:23-26): the view
\* is activated while it is on top.
MainView_on_activate ==
    /\ self.kind = "Main"
    /\ ~covered
    /\ MainView_on_activate_effect
    /\ UNCHANGED <<repo, chunk_size, covered, run_result, drain_trace>>
    /\ UNCHANGED mvars
    /\ UNCHANGED avars
    /\ UNCHANGED bvars_but_self

\* ViewManager::push of another view over the MainView (manager.rs:19-28):
\* MainView::on_deactivate is the default hook, and update() is no longer routed
\* to the MainView (manager.rs:89-95).
push_over_main ==
    /\ self.kind = "Main"
    /\ ~covered
    /\ covered' = TRUE
    /\ UNCHANGED <<self, repo, chunk_size, walker, cchan, run_result, drain_trace>>
    /\ UNCHANGED mvars
    /\ UNCHANGED avars
    /\ UNCHANGED bvars_but_self

\* ViewManager::pop of the view over the MainView (manager.rs:31-45): the
\* MainView is current again and its on_activate runs.
pop_to_main ==
    /\ self.kind = "Main"
    /\ covered
    /\ covered' = FALSE
    /\ MainView_on_activate_effect
    /\ UNCHANGED <<repo, chunk_size, run_result, drain_trace>>
    /\ UNCHANGED mvars
    /\ UNCHANGED avars
    /\ UNCHANGED bvars_but_self

\* An update() that takes one chunk per call.
try_recv_all_mut(queue) == IF queue = <<>> THEN <<>> ELSE <<Head(queue)>>

\* `while let Ok(chunk) = receiver.try_recv()` (main_view.rs:345): every chunk
\* queued at that moment, in queue order.
try_recv_all(queue) == queue

\* MainView::update (main_view.rs:342-351), called while the view is current.
MainView_update ==
    /\ self.kind = "Main"
    /\ ~covered
    /\ IF self.receiver # None
       THEN LET chunks == try_recv_all(cchan.queue) IN
            /\ self' = [self EXCEPT !.commits = @ \o Flatten(chunks)]
            /\ cchan' = [cchan EXCEPT !.queue = SubSeq(@, Len(chunks) + 1, Len(@))]
            /\ drain_trace' = [behind |-> saturating_sub(drain_trace.behind, Len(chunks)),
                               taken |-> Len(chunks),
                               taken_behind |-> Min(drain_trace.behind, Len(chunks))]
       ELSE UNCHANGED <<self, cchan, drain_trace>>
    /\ run_result' = run_after_update(update_result(None))
    /\ UNCHANGED <<repo, chunk_size, walker, covered>>
    /\ UNCHANGED mvars
    /\ UNCHANGED avars
    /\ UNCHANGED bvars_but_self

\* ------------------------------------------------------------------ help view
\* HelpView::new (help_view.rs:20-26)
HelpView_new ==
    [kind |-> "Help", scroll_offset |-> 0, lines |-> [i \in 1..HelpLines |-> "line"]]

HelpKeys == {"q", "Esc", "j", "k", "g", "G", "PageDown", "PageUp", "x"}

\* help_view.rs:241-270: the Action handle_key returns.
HelpView_key_action(v, key) ==
    IF key \in {"q", "Esc"} THEN [type |-> "PopView"] ELSE [type |-> "None"]

\* help_view.rs:218-221
HelpView_scroll_down(v, amount) ==
    LET max_scroll == saturating_sub(Len(v.lines), 1) IN
    [v EXCEPT !.scroll_offset = Min(v.scroll_offset + amount, max_scroll)]

\* help_view.rs:224-226
HelpView_scroll_up(v, amount) ==
    [v EXCEPT !.scroll_offset = saturating_sub(v.scroll_offset, amount)]

\* help_view.rs:229-231
HelpView_scroll_to_top(v) == [v EXCEPT !.scroll_offset = 0]

\* help_view.rs:234-236
HelpView_scroll_to_bottom(v) ==
    [v EXCEPT !.scroll_offset = saturating_sub(Len(v.lines), 1)]

\* HelpView::handle_key (help_view.rs:241-270)
HelpView_handle_key(key) ==
    /\ self.kind = "Help"
    /\ self' = CASE key = "j" -> HelpView_scroll_down(self, 1)
                 [] key = "k" -> HelpView_scroll_up(self, 1)
                 [] key = "g" -> HelpView_scroll_to_top(self)
                 [] key = "G" -> HelpView_scroll_to_bottom(self)
                 [] key = "PageDown" -> HelpView_scroll_down(self, PageSize)
                 [] key = "PageUp" -> HelpView_scroll_up(self, PageSize)
                 [] OTHER -> self
    /\ UNCHANGED bvars_but_self
    /\ UNCHANGED mvars
    /\ UNCHANGED avars
    /\ UNCHANGED wvars

\* An update() that scrolls back to the top.
HelpView_update_mut ==
    /\ self.kind = "Help"
    /\ self' = HelpView_scroll_to_top(self)
    /\ run_result' = run_after_update(update_result(None))
    /\ UNCHANGED bvars_but_self
    /\ UNCHANGED mvars
    /\ UNCHANGED avars
    /\ UNCHANGED cvars

\* HelpView::update (help_view.rs:272-274)
HelpView_update ==
    /\ self.kind = "Help"
    /\ self' = self
    /\ run_result' = run_after_update(update_result(None))
    /\ UNCHANGED bvars_but_self
    /\ UNCHANGED mvars
    /\ UNCHANGED avars
    /\ UNCHANGED cvars

\* ------------------------------------------------------------------ covering
\* ViewManager::push of another view over the DiffView ('?' pushes the help,
\* diff_view.rs:353-356, manager.rs:19-28): DiffView::on_deactivate is the
\* default hook; keys and update() now go to the view on top.
push_over_diff ==
    /\ self.kind = "Diff"
    /\ ~covered
    /\ covered' = TRUE
    /\ UNCHANGED <<repo, chunk_size, walker, cchan, drain_trace, run_result>>
    /\ UNCHANGED mvars
    /\ UNCHANGED avars
    /\ UNCHANGED bvars

\* ViewManager::pop of the view over the DiffView (manager.rs:31-45): the
\* DiffView is current again and its on_activate runs.
pop_to_diff ==
    /\ self.kind = "Diff"
    /\ covered
    /\ covered' = FALSE
    /\ DiffView_on_activate_effect
    /\ UNCHANGED <<stage_started, trig, stage_task, applied>>
    /\ UNCHANGED <<repo, chunk_size, walker, cchan, drain_trace, run_result>>
    /\ UNCHANGED mvars
    /\ UNCHANGED avars

\* ViewManager::push of another view over the StatusView (Enter opens a diff,
\* '?' the help: status_view.rs:298-327,372-375, manager.rs:19-28).
push_over_status ==
    /\ self.kind = "Status"
    /\ ~covered
    /\ covered' = TRUE
    /\ UNCHANGED <<repo, chunk_size, walker, cchan, drain_trace, run_result>>
    /\ UNCHANGED mvars
    /\ UNCHANGED avars
    /\ UNCHANGED bvars

\* A re-activation that always reloads.
pop_to_status_mut ==
    /\ self.kind = "Status"
    /\ covered
    /\ covered' = FALSE
    /\ started < MaxQueries
    /\ Started(StatusView_start_loading(self))
    /\ UNCHANGED <<stage_started, trig, stage_task, applied>>
    /\ UNCHANGED <<repo, chunk_size, walker, cchan, drain_trace, run_result>>
    /\ UNCHANGED mvars
    /\ UNCHANGED avars

\* ViewManager::pop of the view over the StatusView (manager.rs:31-45): the
\* StatusView is current again and its on_activate runs.
pop_to_status ==
    /\ self.kind = "Status"
    /\ covered
    /\ covered' = FALSE
    /\ StatusView_on_activate_effect
    /\ UNCHANGED <<stage_started, trig, stage_task, applied>>
    /\ UNCHANGED <<repo, chunk_size, walker, cchan, drain_trace, run_result>>
    /\ UNCHANGED mvars
    /\ UNCHANGED avars

\* ------------------------------------------------------------------ Init
\* No commit stream, and run() in its loop.
NoWalk ==
    /\ repo = [history |-> <<>>, fail |-> None]
    /\ chunk_size = 1
    /\ walker = NoWalker
    /\ cchan = drop_rx(unbounded_channel)
    /\ covered = FALSE
    /\ drain_trace = [behind |-> 0, taken |-> 0, taken_behind |-> 0]
    /\ run_result = None

\* A freshly constructed view of any of the four kinds; for a MainView, over
\* any repository state and with a walker of any chunk size.
InitViews ==
    /\ self \in {DiffView_new(s) : s \in DiffSources}
                \cup {StatusView_new, MainView_new, HelpView_new}
    /\ started = 0
    /\ chan = [c \in QueryIds |-> drop_rx(unbounded_channel)]
    /\ task = [q \in QueryIds |-> NoTask]
    /\ stage_started = 0
    /\ trig = [t \in StageIds |-> drop_rx(unbounded_channel)]
    /\ stage_task = [k \in StageIds |-> NoStageTask]
    /\ applied = 0
    /\ IF self.kind = "Main"
       THEN /\ repo \in ValidRepos
            /\ chunk_size \in 1..MaxChunk
       ELSE /\ repo = [history |-> <<>>, fail |-> None]
            /\ chunk_size = 1
    /\ walker = NoWalker
    /\ cchan = drop_rx(unbounded_channel)
    /\ covered = FALSE
    /\ drain_trace = [behind |-> 0, taken |-> 0, taken_behind |-> 0]
    /\ run_result = None

\* The views as the application drives them: activation, keys, updates and
\* the drop of the view, with the units running beside them.
NextViews ==
    \/ DiffView_on_activate
    \/ \E key \in DiffKeys : DiffView_handle_key(key)
    \/ DiffView_update
    \/ push_over_diff
    \/ pop_to_diff
    \/ StatusView_on_activate
    \/ StatusView_key_r
    \/ StatusView_key_u
    \/ \E key \in StatusKeys : StatusView_handle_key(key)
    \/ StatusView_update
    \/ push_over_status
    \/ pop_to_status
    \/ MainView_on_activate
    \/ push_over_main
    \/ pop_to_main
    \/ MainView_update
    \/ \E key \in HelpKeys : HelpView_handle_key(key)
    \/ HelpView_update
    \/ \E q \in QueryIds : load_unit(q)
    \/ \E k \in StageIds : stage_unit(k)
    \/ walk_next
    \/ walk_remaining
    \/ drop_view

\* A freshly constructed MainView over any repository state, with a walker of
\* any chunk size.
InitMain ==
    /\ InitViews
    /\ self = MainView_new

\* The MainView, its walker and the views pushed over it.
NextMain ==
    \/ MainView_on_activate
    \/ push_over_main
    \/ pop_to_main
    \/ MainView_update
    \/ walk_next
    \/ walk_remaining
    \/ drop_view
\* ------------------------------------------------------------------ search
\* The longest search query typed (the query of the code has no limit), and
\* the number of commits of the repository searched.
MaxQueryLen == 2
SearchCommits == 3

\* The characters typed: letters of both cases, a digit of a short id, and the
\* characters that are commands outside search input.
CharKeys == {"f", "I", "7", "g", "G", "/", "q"}

SearchKeys == CharKeys \cup {"Esc", "Enter", "Backspace", "Down", "Up", "PageUp", "PageDown", "Tab"}

\* The text of the commit at place id of the history that the search reads
\* (git/commit.rs:7-16): summaries "Fi", "Ad", "fI" in turn, two authors, and
\* short ids of which some hold a 7.
Commit(id) ==
    [id |-> id,
     summary |-> CASE id % 3 = 1 -> <<"F", "i">>
                   [] id % 3 = 2 -> <<"A", "d">>
                   [] OTHER -> <<"f", "I">>,
     author |-> IF id % 2 = 0 THEN <<"G">> ELSE <<"q">>,
     short_id |-> IF id % 4 = 2 THEN <<"7", "a">> ELSE <<"0", "a">>]

\* A lowering that leaves every character as it is.
to_lowercase_mut(s) == s

\* str::to_lowercase as main_view.rs:103,109-111 call it, on the characters in use.
to_lowercase(s) ==
    [i \in 1..Len(s) |-> CASE s[i] = "F" -> "f"
                           [] s[i] = "I" -> "i"
                           [] s[i] = "A" -> "a"
                           [] s[i] = "G" -> "g"
                           [] OTHER -> s[i]]

\* str::contains as main_view.rs:109-111 call it: q is a substring of s.
contains(s, q) ==
    \E i \in 0..(Len(s) - Len(q)) : SubSeq(s, i + 1, i + Len(q)) = q

\* main_view.rs:92-94
is_searching(v) == v.search_mode = "Active" /\ v.search_query # <<>>

\* main_view.rs:80-89: the places listed in filtered_commits that exist in
\* commits, or all commits.
displayed_commits(v) ==
    IF is_searching(v)
    THEN LET present == SelectSeq(v.filtered_commits, LAMBDA i : i < Len(v.commits))
         IN  [n \in 1..Len(present) |-> v.commits[present[n] + 1]]
    ELSE v.commits

\* main_view.rs:69-77
selected_commit(v) ==
    IF v.selected = None THEN None
    ELSE LET i == v.selected[1] IN
         IF is_searching(v)
         THEN IF i < Len(v.filtered_commits) /\ v.filtered_commits[i + 1] < Len(v.commits)
              THEN Some(v.commits[v.filtered_commits[i + 1] + 1])
              ELSE None
         ELSE IF i < Len(v.commits) THEN Some(v.commits[i + 1]) ELSE None

\* main_view.rs:104-114: the places (from 0) of the commits whose summary,
\* author or short id, lowered, contains the lowered query, in rising order.
matching(commits, search_query) ==
    LET query == to_lowercase(search_query)
        hit(i) == LET commit == Commit(commits[i + 1]) IN
                  \/ contains(to_lowercase(commit.summary), query)
                  \/ contains(to_lowercase(commit.author), query)
                  \/ contains(to_lowercase(commit.short_id), query)
    IN  SelectSeq([n \in 1..Len(commits) |-> n - 1], hit)

\* A filter that pushes what it finds onto the places already stored.
update_search_filter_mut(v) ==
    IF v.search_query = <<>>
    THEN [v EXCEPT !.filtered_commits = <<>>]
    ELSE LET found == matching(v.commits, v.search_query) IN
         [v EXCEPT !.filtered_commits = @ \o found,
                   !.selected = IF found # <<>> THEN Some(0) ELSE @]

\* main_view.rs:97-120
update_search_filter(v) ==
    IF v.search_query = <<>>
    THEN [v EXCEPT !.filtered_commits = <<>>]
    ELSE LET found == matching(v.commits, v.search_query) IN
         [v EXCEPT !.filtered_commits = found,
                   !.selected = IF found # <<>> THEN Some(0) ELSE @]

\* main_view.rs:123-127
enter_search_mode(v) ==
    [v EXCEPT !.search_mode = "Active", !.search_query = <<>>, !.filtered_commits = <<>>]

\* main_view.rs:130-135
exit_search_mode(v) ==
    [v EXCEPT !.search_mode = "Inactive", !.search_query = <<>>,
              !.filtered_commits = <<>>, !.selected = Some(0)]

\* main_view.rs:138-141
search_add_char(v, c) ==
    update_search_filter([v EXCEPT !.search_query = Append(@, c)])

\* main_view.rs:144-147: String::pop on an empty query removes nothing.
search_backspace(v) ==
    update_search_filter(
        [v EXCEPT !.search_query = IF @ = <<>> THEN <<>> ELSE SubSeq(@, 1, Len(@) - 1)])

\* The `len` of select_next, select_last and page_down (main_view.rs:166-170,
\* 192-196, 214-218).
displayed_len(v) ==
    IF is_searching(v) THEN Len(v.filtered_commits) ELSE Len(v.commits)

\* main_view.rs:150-162
MainView_select_previous(v) ==
    [v EXCEPT !.selected = IF @ = None THEN Some(0)
                           ELSE IF @[1] = 0 THEN Some(0) ELSE Some(@[1] - 1)]

\* A select_next that does not stop at the last row.
MainView_select_next_mut(v) ==
    [v EXCEPT !.selected = IF @ = None THEN Some(0) ELSE Some(@[1] + 1)]

\* main_view.rs:165-183
MainView_select_next(v) ==
    [v EXCEPT !.selected = IF @ = None THEN Some(0)
                           ELSE IF @[1] >= saturating_sub(displayed_len(v), 1) THEN @
                           ELSE Some(@[1] + 1)]

\* main_view.rs:186-188
MainView_select_first(v) == [v EXCEPT !.selected = Some(0)]

\* main_view.rs:191-201
MainView_select_last(v) ==
    IF displayed_len(v) > 0 THEN [v EXCEPT !.selected = Some(displayed_len(v) - 1)] ELSE v

\* main_view.rs:204-210
MainView_page_up(v, page_size) ==
    [v EXCEPT !.selected = IF @ = None THEN Some(0)
                           ELSE Some(saturating_sub(@[1], page_size))]

\* main_view.rs:213-226
MainView_page_down(v, page_size) ==
    [v EXCEPT !.selected = IF @ = None THEN Some(0)
                           ELSE Some(Min(@[1] + page_size,
                                         saturating_sub(displayed_len(v), 1)))]

\* main_view.rs:258-340: the Action handle_key returns.
MainView_key_action(v, key) ==
    IF v.search_mode = "Active" THEN [type |-> "None"]
    ELSE CASE key = "q" -> [type |-> "Quit"]
           [] key = "Enter" /\ selected_commit(v) # None ->
                [type |-> "OpenDiff", commit_id |-> selected_commit(v)[1]]
           [] key = "s" -> [type |-> "PushView", view_type |-> "Status"]
           [] key = "?" -> [type |-> "PushView", view_type |-> "Help"]
           [] OTHER -> [type |-> "None"]

\* main_view.rs:258-340: what handle_key does to the view.
MainView_key_effect(v, key) ==
    IF v.search_mode = "Active"
    THEN CASE key = "Esc" -> exit_search_mode(v)
           [] key = "Enter" -> [v EXCEPT !.search_mode = "Inactive"]
           [] key = "Backspace" -> search_backspace(v)
           [] key \in CharKeys -> search_add_char(v, key)
           [] OTHER -> v
    ELSE CASE key = "/" -> enter_search_mode(v)
           [] key = "Esc" /\ is_searching(v) -> exit_search_mode(v)
           [] key \in {"j", "Down"} -> MainView_select_next(v)
           [] key \in {"k", "Up"} -> MainView_select_previous(v)
           [] key = "g" -> MainView_select_first(v)
           [] key = "G" -> MainView_select_last(v)
           [] key = "PageUp" -> MainView_page_up(v, PageSize)
           [] key = "PageDown" -> MainView_page_down(v, PageSize)
           [] OTHER -> v

\* MainView::handle_key (main_view.rs:258-340), called while the view is
\* current; a typed character is taken while the query is shorter than MaxQueryLen.
MainView_handle_key(key) ==
    /\ self.kind = "Main"
    /\ ~covered
    /\ (self.search_mode = "Active" /\ key \in CharKeys) => Len(self.search_query) < MaxQueryLen
    /\ self' = MainView_key_effect(self, key)
    /\ handled' = [key |-> "-", action |-> MainView_key_action(self, key),
                   delegated |-> TRUE, result |-> "Ok",
                   before |-> app.view_stack, flip |-> ~handled.flip]
    /\ UNCHANGED <<app, loop, events, inbox, terminal>>
    /\ UNCHANGED bvars_but_self
    /\ UNCHANGED mvars
    /\ UNCHANGED wvars

\* A freshly constructed MainView over a repository of SearchCommits commits
\* whose walk does not fail, with a walker of chunk size 2.
InitSearch ==
    /\ InitViews
    /\ self = MainView_new
    /\ repo = [history |-> [i \in 1..SearchCommits |-> i], fail |-> None]
    /\ chunk_size = 2

\* The MainView under the keys, with its commits arriving.
NextSearch ==
    \/ MainView_on_activate
    \/ MainView_update
    \/ walk_next
    \/ walk_remaining
    \/ \E key \in SearchKeys : MainView_handle_key(key)

\* ------------------------------------------------------------------ shell
\* The deepest view stack a handler called on its own may build (the keys of
\* the views never build a deeper one), the most events queued in the channel
\* of EventHandler, and the most messages the units send to the views.
MaxShellDepth == 4
MaxEvents == 1
MaxSends == 2

\* The kinds of views App creates (app.rs:44-45,96-104,115-130).
ViewKinds == {"Main", "Status", "Diff", "Help"}

\* The values of Action (view.rs:9-36), without their payloads.
AppActions ==
    {[type |-> "None"], [type |-> "Quit"], [type |-> "PopView"],
     [type |-> "OpenDiff"], [type |-> "OpenStagedDiff"], [type |-> "OpenUnstagedDiff"]}
    \cup {[type |-> t, view_type |-> k] : t \in {"PushView", "SwitchView"}, k \in ViewKinds}

ShellKeys == {"q", "s", "?", "Enter", "Esc", "Ctrl+C"}

\* The values of Event (event.rs:8-13).
ShellEvents ==
    {[type |-> "Tick"], [type |-> "Resize"], [type |-> "Mouse"]}
    \cup {[type |-> "Key", key |-> k] : k \in ShellKeys}

\* No key or Action handled yet.
NoHandled ==
    [key |-> "-", action |-> [type |-> "None"], delegated |-> FALSE, result |-> "Ok",
     before |-> <<>>, flip |-> FALSE]

\* App::new (app.rs:26-34), EventHandler::new (event.rs:22-25), run() not
\* started, the terminal in the mode the shell left it in.
NoApp ==
    /\ app = [running |-> TRUE, view_stack |-> <<>>, repo |-> None, error |-> None]
    /\ loop = [pc |-> "init", event |-> None, poller |-> "none"]
    /\ events = unbounded_channel
    /\ inbox = [waiting |-> <<>>, sent |-> 0, taken |-> 0]
    /\ handled = NoHandled
    /\ terminal = [raw |-> FALSE, alternate |-> FALSE, entered |-> FALSE, restored |-> "none"]

\* The Actions the handle_key of the view on top can return for a key
\* (main_view.rs:258-340, where every key gives None during search input and
\* Enter gives None without a selected commit; status_view.rs:266-378;
\* diff_view.rs:326-359; help_view.rs:241-270), and Action::None when there is
\* no view (manager.rs:80-86).
KeyActions(stack, key) ==
    LET kind == IF stack = <<>> THEN "-" ELSE stack[Len(stack)] IN
    CASE kind = "Main" /\ key = "q" -> {[type |-> "Quit"], [type |-> "None"]}
      [] kind = "Main" /\ key = "s" ->
           {[type |-> "PushView", view_type |-> "Status"], [type |-> "None"]}
      [] kind = "Main" /\ key = "?" ->
           {[type |-> "PushView", view_type |-> "Help"], [type |-> "None"]}
      [] kind = "Main" /\ key = "Enter" -> {[type |-> "OpenDiff"], [type |-> "None"]}
      [] kind = "Status" /\ key = "q" -> {[type |-> "Quit"]}
      [] kind = "Status" /\ key = "?" -> {[type |-> "PushView", view_type |-> "Help"]}
      [] kind = "Status" /\ key = "Enter" ->
           {[type |-> "OpenStagedDiff"], [type |-> "OpenUnstagedDiff"], [type |-> "None"]}
      [] kind = "Diff" /\ key \in {"q", "Esc"} -> {[type |-> "PopView"]}
      [] kind = "Diff" /\ key = "?" -> {[type |-> "PushView", view_type |-> "Help"]}
      [] kind = "Help" /\ key \in {"q", "Esc"} -> {[type |-> "PopView"]}
      [] OTHER -> {[type |-> "None"]}

\* A push that puts the view under the others.
push_mut(s, kind) ==
    [s EXCEPT !.app.view_stack = <<kind>> \o @, !.waiting = <<0>> \o @]

\* ViewManager::push (manager.rs:19-28) of a view of the application, whose
\* hooks return Ok (view.rs:62-69 and the on_activate of each view): the view
\* is on top, with an empty channel.
push(s, kind) ==
    [s EXCEPT !.app.view_stack = Append(@, kind), !.waiting = Append(@, 0)]

\* ViewManager::pop (manager.rs:31-45) for such views: refused at depth <= 1,
\* else the top is removed and dropped with its receiving ends.
pop(s) ==
    IF Len(s.app.view_stack) <= 1 THEN [s EXCEPT !.result = "Err"]
    ELSE [s EXCEPT !.app.view_stack = SubSeq(@, 1, Len(@) - 1),
                   !.waiting = SubSeq(@, 1, Len(@) - 1)]

\* A PopView that passes the refusal on: `self.view_manager.pop()?`.
pop_ignored_mut(s) == s

\* app.rs:113: `self.view_manager.pop().ok()` drops the Result of pop.
pop_ignored(s) == [s EXCEPT !.result = "Ok"]

\* App::handle_action (app.rs:87-134) on s = the App, the channels of its
\* views and the Result so far.
handle_action(s, a) ==
    CASE a.type = "Quit" -> [s EXCEPT !.app.running = FALSE]
      [] a.type = "PushView" /\ a.view_type = "Status" ->
           IF s.app.repo # None THEN push(s, "Status") ELSE s
      [] a.type = "PushView" /\ a.view_type = "Help" -> push(s, "Help")
      [] a.type = "PopView" -> pop_ignored(pop(s))
      [] a.type \in {"OpenDiff", "OpenStagedDiff", "OpenUnstagedDiff"} -> push(s, "Diff")
      [] OTHER -> s

\* A shell without its global key binding.
is_ctrl_c_mut(key) == FALSE

\* app.rs:74: `key.code == KeyCode::Char('c') && key.modifiers == KeyModifiers::CONTROL`
is_ctrl_c(key) == key = "Ctrl+C"

\* App::handle_key (app.rs:72-84): Ctrl+C stops the application; any other key
\* goes to the view on top and the Action it returns is handled. The set of
\* outcomes, one for each Action the view can return.
handle_key(s, key) ==
    IF is_ctrl_c(key)
    THEN {[s EXCEPT !.app.running = FALSE]}
    ELSE {handle_action([s EXCEPT !.action = a, !.delegated = TRUE], a) :
            a \in KeyActions(s.app.view_stack, key)}

\* App::handle_event (app.rs:62-69)
handle_event(s, event) ==
    IF event.type = "Key" THEN handle_key(s, event.key) ELSE {s}

\* The App and the channels of its views, before a handler runs.
Shell ==
    [app |-> app, waiting |-> inbox.waiting, action |-> [type |-> "None"],
     delegated |-> FALSE, result |-> "Ok"]

\* Whether Action a pushes a view.
Pushes(a) ==
    \/ a.type \in {"OpenDiff", "OpenStagedDiff", "OpenUnstagedDiff"}
    \/ a.type = "PushView" /\ a.view_type \in {"Status", "Help"}

\* App::init (app.rs:37-54): the repository is found and the MainView pushed,
\* or the failure is stored and returned.
App_init ==
    /\ app.repo = None
    /\ app.error = None
    /\ \E found \in BOOLEAN :
         IF found
         THEN LET s == push([Shell EXCEPT !.app.repo = Some("repo")], "Main") IN
              /\ app' = s.app
              /\ inbox' = [inbox EXCEPT !.waiting = s.waiting]
              /\ handled' = [key |-> "init", action |-> [type |-> "None"],
                             delegated |-> FALSE, result |-> "Ok", before |-> app.view_stack, flip |-> ~handled.flip]
         ELSE /\ app' = [app EXCEPT !.error = Some("Failed to open repository")]
              /\ inbox' = inbox
              /\ handled' = [key |-> "init", action |-> [type |-> "None"],
                             delegated |-> FALSE, result |-> "Err", before |-> app.view_stack, flip |-> ~handled.flip]
    /\ UNCHANGED <<loop, events, terminal>>
    /\ UNCHANGED mvars
    /\ UNCHANGED bvars
    /\ UNCHANGED wvars

\* A call of App::handle_action (app.rs:87-134) with Action a.
App_handle_action(a) ==
    /\ Pushes(a) => Len(app.view_stack) < MaxShellDepth
    /\ LET s == handle_action(Shell, a) IN
       /\ app' = s.app
       /\ inbox' = [inbox EXCEPT !.waiting = s.waiting]
       /\ handled' = [key |-> "-", action |-> a, delegated |-> FALSE, result |-> s.result,
                      before |-> app.view_stack, flip |-> ~handled.flip]
    /\ UNCHANGED <<loop, events, terminal>>
    /\ UNCHANGED mvars
    /\ UNCHANGED bvars
    /\ UNCHANGED wvars

\* A call of App::handle_event (app.rs:62-69) with an event.
App_handle_event(event) ==
    /\ \E s \in handle_event(Shell, event) :
         /\ Len(s.app.view_stack) <= MaxShellDepth
         /\ app' = s.app
         /\ inbox' = [inbox EXCEPT !.waiting = s.waiting]
         /\ handled' = [key |-> IF event.type = "Key" THEN event.key ELSE event.type,
                        action |-> s.action, delegated |-> s.delegated,
                        result |-> s.result,
                        before |-> app.view_stack, flip |-> ~handled.flip]
    /\ UNCHANGED <<loop, events, terminal>>
    /\ UNCHANGED mvars
    /\ UNCHANGED bvars
    /\ UNCHANGED wvars

\* The handlers of App, each called on its own.
NextShell ==
    \/ App_init
    \/ \E a \in AppActions : App_handle_action(a)
    \/ \E event \in ShellEvents : App_handle_event(event)

\* ------------------------------------------------------------------ run loop
\* The end of run() (main.rs:56-58 or a `?` of its loop): the EventHandler is
\* dropped, and with it the receiving end of its channel.
returned(r) ==
    /\ loop' = [loop EXCEPT !.pc = "returned", !.event = None]
    /\ events' = drop_rx(events)
    /\ run_result' = Some(r)

\* What ui::terminal::init can give (terminal.rs:12-19): the terminal, or the
\* error of enable_raw_mode, of EnterAlternateScreen or of Terminal::new.
InitOutcomes == {"Ok", "ErrRaw", "ErrScreen", "ErrTerminal"}

\* ui::terminal::init (terminal.rs:12-19): each `?` returns with what was
\* done before it.
terminal_init(t, outcome) ==
    CASE outcome = "ErrRaw" -> t
      [] outcome = "ErrScreen" -> [t EXCEPT !.raw = TRUE, !.entered = TRUE]
      [] OTHER -> [t EXCEPT !.raw = TRUE, !.alternate = TRUE, !.entered = TRUE]

\* What ui::terminal::restore can give (terminal.rs:22-26): Ok, or the error of
\* disable_raw_mode or of LeaveAlternateScreen.
RestoreOutcomes == {"Ok", "ErrRaw", "ErrScreen"}

\* ui::terminal::restore (terminal.rs:22-26)
restore(t, outcome) ==
    CASE outcome = "ErrRaw" -> [t EXCEPT !.restored = "Err"]
      [] outcome = "ErrScreen" -> [t EXCEPT !.raw = FALSE, !.restored = "Err"]
      [] OTHER -> [t EXCEPT !.raw = FALSE, !.alternate = FALSE, !.restored = "Ok"]

\* `ui::terminal::restore()?` followed by the return of Ok (main.rs:32-34,56-58).
restore_and_return(outcome) == IF outcome = "Ok" THEN "Ok" ELSE "Err"

\* run() up to its loop (main.rs:24-39): ui::terminal::init, whose failure
\* run() returns; App::init, and on its success the start of the event source
\* (event.rs:28-60); on its failure the terminal is restored and run() returns Ok.
run_init ==
    /\ loop.pc = "init"
    /\ app.repo = None
    /\ app.error = None
    /\ \E entered \in InitOutcomes :
         IF entered # "Ok"
         THEN /\ terminal' = terminal_init(terminal, entered)
              /\ returned("Err")
              /\ UNCHANGED <<app, inbox>>
         ELSE \E found \in BOOLEAN :
                IF found
                THEN LET s == push([Shell EXCEPT !.app.repo = Some("repo")], "Main") IN
                     /\ terminal' = terminal_init(terminal, entered)
                     /\ app' = s.app
                     /\ inbox' = [inbox EXCEPT !.waiting = s.waiting]
                     /\ loop' = [loop EXCEPT !.pc = "update", !.poller = "polling"]
                     /\ UNCHANGED <<events, run_result>>
                ELSE \E restored \in RestoreOutcomes :
                       /\ terminal' = restore(terminal_init(terminal, entered), restored)
                       /\ app' = [app EXCEPT !.error = Some("Failed to open repository")]
                       /\ inbox' = inbox
                       /\ returned(restore_and_return(restored))
    /\ UNCHANGED handled
    /\ UNCHANGED cvars
    /\ UNCHANGED mvars
    /\ UNCHANGED bvars

\* main.rs:41-43 and 56-58: the loop condition, after whose failure the terminal
\* is restored and run() returns; else App::update (app.rs:137-140),
\* which is the update() of the view on top (manager.rs:89-95): it takes what
\* waits on the channels of that view.
run_update ==
    /\ loop.pc = "update"
    /\ IF ~app.running
       THEN \E restored \in RestoreOutcomes :
              /\ terminal' = restore(terminal, restored)
              /\ returned(restore_and_return(restored))
              /\ UNCHANGED inbox
       ELSE LET top == Len(app.view_stack) IN
            /\ terminal' = terminal
            /\ inbox' = IF top = 0 THEN inbox
                        ELSE [inbox EXCEPT !.waiting[top] = 0,
                                           !.taken = @ + inbox.waiting[top]]
            /\ loop' = [loop EXCEPT !.pc = "draw"]
            /\ run_result' = run_after_update(update_result(None))
            /\ UNCHANGED events
    /\ UNCHANGED <<app, handled>>
    /\ UNCHANGED cvars
    /\ UNCHANGED mvars
    /\ UNCHANGED bvars

\* main.rs:46-48: `terminal.draw(..)?`
run_draw ==
    /\ loop.pc = "draw"
    /\ \E drawn \in BOOLEAN :
         IF drawn
         THEN /\ loop' = [loop EXCEPT !.pc = "next"]
              /\ UNCHANGED <<events, run_result>>
         ELSE returned("Err")
    /\ UNCHANGED <<app, inbox, handled, terminal>>
    /\ UNCHANGED cvars
    /\ UNCHANGED mvars
    /\ UNCHANGED bvars

\* main.rs:51 and event.rs:63-65: `event_handler.next().await` gives the first
\* event queued; while none is queued run() waits.
run_next ==
    /\ loop.pc = "next"
    /\ events.queue # <<>>
    /\ loop' = [loop EXCEPT !.pc = "handle", !.event = Some(Head(events.queue))]
    /\ events' = [events EXCEPT !.queue = Tail(@)]
    /\ UNCHANGED <<app, inbox, handled, terminal>>
    /\ UNCHANGED wvars
    /\ UNCHANGED mvars
    /\ UNCHANGED bvars

\* main.rs:52: `app.handle_event(event)?`
run_handle_event ==
    /\ loop.pc = "handle"
    /\ \E s \in handle_event(Shell, loop.event[1]) :
         /\ app' = s.app
         /\ inbox' = [inbox EXCEPT !.waiting = s.waiting]
         /\ IF s.result = "Ok"
            THEN /\ loop' = [loop EXCEPT !.pc = "update", !.event = None]
                 /\ UNCHANGED <<events, run_result>>
            ELSE returned("Err")
    /\ UNCHANGED <<handled, terminal>>
    /\ UNCHANGED cvars
    /\ UNCHANGED mvars
    /\ UNCHANGED bvars

\* An event source that sends nothing when the poll times out.
on_poll_timeout_mut == <<>>

\* event.rs:51-56: when the poll of 100 ms gives no event, Event::Tick is sent.
on_poll_timeout == <<[type |-> "Tick"]>>

\* One turn of the spawned loop of EventHandler::start (event.rs:30-58) in
\* which the poll times out: the tick is sent, and a refused send ends the loop.
EventHandler_tick ==
    /\ loop.poller = "polling"
    /\ Len(events.queue) < MaxEvents
    /\ IF events.rx
       THEN /\ events' = [events EXCEPT !.queue = @ \o on_poll_timeout]
            /\ loop' = loop
       ELSE /\ events' = events
            /\ loop' = [loop EXCEPT !.poller = "stopped"]
    /\ UNCHANGED <<app, inbox, handled, terminal>>
    /\ UNCHANGED wvars
    /\ UNCHANGED mvars
    /\ UNCHANGED bvars

\* One turn of that loop in which the user pressed a key (event.rs:33-39); the
\* user presses the next key once the last one was taken from the queue.
EventHandler_key(key) ==
    /\ loop.poller = "polling"
    /\ Len(events.queue) < MaxEvents
    /\ \A n \in 1..Len(events.queue) : events.queue[n].type # "Key"
    /\ IF events.rx
       THEN /\ events' = [events EXCEPT !.queue = Append(@, [type |-> "Key", key |-> key])]
            /\ loop' = loop
       ELSE /\ events' = events
            /\ loop' = [loop EXCEPT !.poller = "stopped"]
    /\ UNCHANGED <<app, inbox, handled, terminal>>
    /\ UNCHANGED wvars
    /\ UNCHANGED mvars
    /\ UNCHANGED bvars

\* A background unit of the view at place i of the stack sends a message on a
\* channel of that view (walker.rs:68,78; diff_view.rs:108; status_view.rs:111,365):
\* chunks for the MainView, one result or pulse at a time for a DiffView or
\* StatusView; the HelpView has no unit.
unit_send(i) ==
    /\ loop.pc \notin {"init", "returned"}
    /\ i \in 1..Len(app.view_stack)
    /\ app.view_stack[i] # "Help"
    /\ app.view_stack[i] \in {"Diff", "Status"} => inbox.waiting[i] = 0
    /\ inbox.sent < MaxSends
    /\ inbox' = [inbox EXCEPT !.waiting[i] = @ + 1, !.sent = @ + 1]
    /\ UNCHANGED <<app, loop, events, handled, terminal>>
    /\ UNCHANGED wvars
    /\ UNCHANGED mvars
    /\ UNCHANGED bvars

\* A main that leaves the terminal as run() left it.
main_restores_mut(r) == FALSE

\* main.rs:14-15: `if let Err(e) = run().await { ui::terminal::restore()?; .. }`
main_restores(r) == r = "Err"

\* main() after run() returned (main.rs:14-20): on an Err the terminal is
\* restored and the process exits with status 1, else main returns Ok.
main_exit ==
    /\ loop.pc = "returned"
    /\ \E restored \in RestoreOutcomes :
         terminal' = IF main_restores(run_result[1]) THEN restore(terminal, restored)
                     ELSE terminal
    /\ loop' = [loop EXCEPT !.pc = "exited"]
    /\ UNCHANGED <<app, events, inbox, handled>>
    /\ UNCHANGED wvars
    /\ UNCHANGED mvars
    /\ UNCHANGED bvars

\* A panic in the loop of run() (main.rs:41-54): the hook main() installed
\* restores the terminal, dropping the Result, and prints (main.rs:7-11); the
\* main task unwinds and the process ends.
run_panic ==
    /\ loop.pc \in {"update", "draw", "handle"}
    /\ \E restored \in RestoreOutcomes : terminal' = restore(terminal, restored)
    /\ loop' = [loop EXCEPT !.pc = "panicked", !.event = None]
    /\ events' = drop_rx(events)
    /\ UNCHANGED <<app, inbox, handled>>
    /\ UNCHANGED wvars
    /\ UNCHANGED mvars
    /\ UNCHANGED bvars

\* run() with its event source, the user and the units of the views.
NextLoop ==
    \/ run_init
    \/ run_update
    \/ run_draw
    \/ run_next
    \/ run_handle_event
    \/ EventHandler_tick
    \/ \E key \in ShellKeys : EventHandler_key(key)
    \/ \E i \in 1..MaxShellDepth : unit_send(i)

\* The process: main(), run() and what runs beside them.
NextProcess ==
    \/ NextLoop
    \/ main_exit
    \/ run_panic
\* ------------------------------------------------------------------ Spec
NextManager ==
    \/ \E t \in Titles : push_deactivate(MockView_new(t))
    \/ push_append
    \/ push_activate
    \/ pop_remove
    \/ pop_deactivate
    \/ pop_activate
    \/ \E t \in Titles : switch_remove(MockView_new(t))
    \/ switch_deactivate
    \/ switch_append
    \/ switch_activate
    \/ ViewManager_handle_key
    \/ ViewManager_update
    \/ ViewManager_draw

\* The view stack on its own.
Init == InitManager /\ NoBridge /\ NoWalk /\ NoApp

Next == NextManager

Spec == Init /\ [][Next]_vars

\* One view, its queries and its background units.
BridgeInit == InitBridge /\ InitManager /\ NoWalk /\ NoApp

BridgeNext == NextBridge

SpecBridge == BridgeInit /\ [][BridgeNext]_vars


\* The runtime runs every spawned unit: a unit that can take its step takes it.
Fairness ==
    /\ \A q \in QueryIds : WF_vars(load_unit(q))
    /\ \A k \in StageIds : WF_vars(stage_unit(k))

SpecBridgeFair == SpecBridge /\ Fairness

\* One view of any kind, driven as the application drives it, and its units.
ViewsInit == InitViews /\ InitManager /\ NoApp

SpecViews == ViewsInit /\ [][NextViews]_vars

\* The MainView and its commit stream.
MainInit == InitMain /\ InitManager /\ NoApp

SpecMain == MainInit /\ [][NextMain]_vars

\* The blocking pool runs the walk: a walk that can take its step takes it.
FairWalk == WF_vars(walk_next) /\ WF_vars(walk_remaining)

SpecMainFair == SpecMain /\ FairWalk

\* The MainView under search and navigation keys.
SearchInit == InitSearch /\ InitManager /\ NoApp

SpecSearch == SearchInit /\ [][NextSearch]_vars

\* The handlers of the application shell, called one at a time.
ShellInit == InitManager /\ NoBridge /\ NoWalk /\ NoApp

SpecShell == ShellInit /\ [][NextShell]_vars

\* run(): the loop, the event source and the units.
LoopInit == InitManager /\ NoBridge /\ NoWalk /\ NoApp

SpecLoop == LoopInit /\ [][NextLoop]_vars

\* The main task and the task of the event source are scheduled (main.rs:4,
\* event.rs:30), and a poll with no input times out after 100 ms (event.rs:33).
LoopFairness ==
    /\ WF_vars(run_update)
    /\ WF_vars(run_draw)
    /\ WF_vars(run_next)
    /\ WF_vars(run_handle_event)
    /\ WF_vars(EventHandler_tick)

SpecLoopFair == SpecLoop /\ LoopFairness

\* main(): run() and what follows its return or its panic.
SpecProcess == LoopInit /\ [][NextProcess]_vars

\* A StatusView on its own, with room for several stage/unstage presses.
InitStatus ==
    /\ self = StatusView_new
    /\ started = 0
    /\ chan = [c \in QueryIds |-> drop_rx(unbounded_channel)]
    /\ task = [q \in QueryIds |-> NoTask]
    /\ stage_started = 0
    /\ trig = [t \in 1..StagePresses |-> drop_rx(unbounded_channel)]
    /\ stage_task = [k \in 1..StagePresses |-> NoStageTask]
    /\ applied = 0

NextStatus ==
    \/ StatusView_on_activate
    \/ StatusView_key_u
    \/ \E key \in StatusKeys : StatusView_handle_key(key)
    \/ StatusView_update
    \/ \E q \in QueryIds : load_unit(q)
    \/ \E k \in 1..StagePresses : stage_unit(k)

StatusInit == InitStatus /\ InitManager /\ NoWalk /\ NoApp

SpecStatus == StatusInit /\ [][NextStatus]_vars
\* ------------------------------------------------------------------ claims
\* C1: once the stack holds the root view, no step of a push or a pop call
\* takes the depth below 1, and a pop called at depth 1 returns an error at
\* once and leaves the stack (depth and current view) as it was.
C1_PushPopKeepRoot ==
    [][ /\ (op' \in {"push", "pop"} /\ Len(view_stack) >= 1)
            => Len(view_stack') >= 1
        /\ (pc = "idle" /\ op' = "pop" /\ Len(view_stack) = 1)
            => (result' = "err" /\ pc' = "idle" /\ view_stack' = view_stack) ]_vars

C1_Witness ==
    /\ op = "pop" /\ pc = "idle" /\ result = "err"
    /\ Len(before) = 1 /\ view_stack = before

\* C2: from depth >= 1, the stack holds at least one view at every point
\* during and after a switch call, also when the old top's deactivate hook
\* returns an error.
C2_SwitchNeverEmpty ==
    (op = "switch" /\ Len(before) >= 1) => Len(view_stack) >= 1

\* The hook invocation h on view v made while the stack held d views.
Invoked(h, v, d) == [hook |-> h, title |-> v.title, depth |-> d]

\* C3: pop at depth >= 2 removes exactly the top view (the depth decreases by
\* one, the remaining views keep their order and the views below the new top
\* are untouched), invokes the removed view's deactivate hook first, and
\* invokes the activate hook of the view now on top only after that hook
\* has returned; when pop returns Ok both hooks ran, in that order, and the
\* new top is active.
C3_PopRemovesTopThenActivates ==
    (op = "pop" /\ Len(before) >= 2) =>
        LET n == Len(before)
            deact == Invoked("on_deactivate", before[n], n - 1)
            act == Invoked("on_activate", before[n - 1], n - 1)
        IN  /\ Len(view_stack) = n - 1
            /\ TitlesOf(view_stack) = TitlesOf(SubSeq(before, 1, n - 1))
            /\ SubSeq(view_stack, 1, n - 2) = SubSeq(before, 1, n - 2)
            /\ pc = "pop_deactivate" => calls = <<>>
            /\ pc = "pop_activate" => calls = <<deact>>
            /\ pc = "idle" => calls \in {<<deact>>, <<deact, act>>}
            /\ (pc = "idle" /\ result = "ok") =>
                   /\ calls = <<deact, act>>
                   /\ view_stack[n - 1] = [title |-> before[n - 1].title, activated |-> TRUE]

C3_Witness ==
    /\ op = "pop" /\ pc = "idle" /\ result = "ok"
    /\ TitlesOf(before) = <<"Main", "Status", "Help">>
    /\ TitlesOf(view_stack) = <<"Main", "Status">>
    /\ Len(calls) = 2

\* C4: push invokes the deactivate hook of the current top (if any) before
\* the new view is appended and the new view's activate hook after it; when
\* push returns Ok the depth has grown by exactly one, the views below are
\* the previous stack in order, and the pushed view is the active current view.
C4_PushDeactivatesAppendsActivates ==
    (op = "push") =>
        LET n == Len(before)
            deact == IF n = 0 THEN <<>>
                     ELSE <<Invoked("on_deactivate", before[n], n)>>
            act == Invoked("on_activate", arg, n + 1)
        IN  /\ pc = "push_append" => (calls = deact /\ Len(view_stack) = n)
            /\ pc = "push_activate" => (calls = deact /\ Len(view_stack) = n + 1)
            /\ (pc = "idle" /\ result = "ok") =>
                   /\ calls = deact \o <<act>>
                   /\ Len(view_stack) = n + 1
                   /\ view_stack[n + 1] = [title |-> arg.title, activated |-> TRUE]
                   /\ TitlesOf(SubSeq(view_stack, 1, n)) = TitlesOf(before)
                   /\ SubSeq(view_stack, 1, n - 1) = SubSeq(before, 1, n - 1)
                   /\ n > 0 => ~view_stack[n].activated

C4_Witness ==
    /\ op = "push" /\ pc = "idle" /\ result = "ok"
    /\ Len(before) = 2 /\ Len(view_stack) = 3
    /\ Len(calls) = 2

\* C5: a switch on a stack of depth >= 1 whose hooks do not fail deactivates
\* the current top and discards it, and makes the new view the active current
\* view: the depth is unchanged and the views below the top are untouched.
C5_SwitchReplacesTop ==
    (op = "switch" /\ pc = "idle" /\ result = "ok" /\ Len(before) >= 1) =>
        LET n == Len(before) IN
        /\ Len(view_stack) = n
        /\ view_stack[n] = [title |-> arg.title, activated |-> TRUE]
        /\ SubSeq(view_stack, 1, n - 1) = SubSeq(before, 1, n - 1)
        /\ calls = <<Invoked("on_deactivate", before[n], n - 1),
                     Invoked("on_activate", arg, n)>>

C5_Witness ==
    /\ op = "switch" /\ pc = "idle" /\ result = "ok"
    /\ Len(before) = 2 /\ Len(view_stack) = 2
    /\ before[2].title # view_stack[2].title

\* C6 (as claimed): whichever hook fails, the stack is left mutated when push
\* returns the error.
C6_PushErrorAlwaysMutates ==
    (op = "push" /\ pc = "idle" /\ result = "err") =>
        TitlesOf(view_stack) # TitlesOf(before)

\* C6 (amended): push returns a hook's error without rolling back.  When the
\* new view's activate hook fails the new view stays appended (depth grown by
\* one) and the old top stays deactivated; when the old top's deactivate hook
\* fails push returns before appending, so the stack holds the same views in
\* the same order and the new view is discarded.
C6_PushErrorNoRollback ==
    (op = "push" /\ pc = "idle" /\ result = "err") =>
        LET n == Len(before) IN
        \/ /\ calls[Len(calls)].hook = "on_activate"
           /\ Len(view_stack) = n + 1
           /\ view_stack[n + 1] = arg
           /\ TitlesOf(SubSeq(view_stack, 1, n)) = TitlesOf(before)
           /\ n > 0 => ~view_stack[n].activated
        \/ /\ n > 0
           /\ calls = <<Invoked("on_deactivate", before[n], n)>>
           /\ TitlesOf(view_stack) = TitlesOf(before)

C6_Witness ==
    /\ op = "push" /\ pc = "idle" /\ result = "err"
    /\ Len(before) = 1 /\ Len(view_stack) = 2
    /\ calls[Len(calls)].hook = "on_activate"

\* C7: handle_key, update and draw of the ViewManager reach the current top
\* view and no other: exactly one View method is invoked, on the last element,
\* and no view of the stack is added, removed or changed; on an empty stack no
\* view method is invoked, handle_key returns Action::None and update
\* returns Ok.
C7_DelegatesToTopOnly ==
    (op \in {"handle_key", "update", "draw"}) =>
        LET n == Len(before) IN
        /\ pc = "idle"
        /\ view_stack = before
        /\ n > 0 => calls = <<Invoked(op, before[n], n)>>
        /\ n = 0 => /\ calls = <<>>
                    /\ result = "ok"
                    /\ op = "handle_key" => action = "None"

C7_Witness ==
    /\ op = "handle_key" /\ Len(before) = 3
    /\ calls # <<>> /\ action = "PopView"


\* ================================================================== claims: result bridge
\* The model a view shows: the diff of a DiffView, the status of a StatusView.
Model(v) ==
    IF v.kind = "Diff" THEN v.diff ELSE IF v.kind = "Status" THEN v.status ELSE None

\* The receiving ends that are alive.
LiveReceivers == {c \in QueryIds : chan[c].rx}

LiveTriggers == {t \in StageIds : trig[t].rx}

\* Every live receiving end is the one the view stores, so there is at most one
\* per kind of channel.
OneReceiverPerKind ==
    /\ Cardinality(LiveReceivers) <= 1
    /\ Cardinality(LiveTriggers) <= 1
    /\ \A c \in LiveReceivers : self.kind # "Dropped" /\ self.receiver = Some(c)
    /\ \A t \in LiveTriggers : self.kind = "Status" /\ self.refresh_trigger = Some(t)

\* A step that stores a model or an error string in the view.
StoresResult ==
    \/ applied' # applied
    \/ /\ self'.kind # "Dropped"
       /\ \/ Model(self') # Model(self)
          \/ self'.error # self.error /\ self'.error # None

\* C8: a view holds at most one live receiving end per query kind, and a step
\* that stores a model or an error in the view applies the result of the query
\* started last: the result of a query that start_loading() superseded is never
\* applied, whenever that query completes.
C8_OnlyNewestQueryApplied ==
    /\ []OneReceiverPerKind
    /\ [][StoresResult => applied' # applied /\ applied' = started']_vars

\* start_loading() was called again before the first query sent its result, the
\* first query then completed into its orphaned channel, and the view holds the
\* result of the second.
C8_Witness ==
    /\ self.kind = "Status"
    /\ started = 2
    /\ task[1].pc = "done" /\ task[1].sent = "closed"
    /\ applied = 2
    /\ self.status # None

\* A unit is not started, running with nothing sent, or ended after one send;
\* no unit ends by a panic.
UnitSendsOnce ==
    /\ \A q \in QueryIds :
         /\ task[q].pc \in {"none", "running", "done"}
         /\ task[q].pc = "none" => task[q].sends = 0
         /\ task[q].pc = "running" => task[q].sends = 0
         /\ task[q].pc = "done" => task[q].sends = 1 /\ task[q].sent \in {"delivered", "closed"}
         /\ Len(chan[q].queue) <= 1

\* C9: every diff or status unit sends exactly one result and then ends; when
\* the view was dropped or its receiver replaced before the send, the send fails
\* silently, nothing panics and the unit still ends.
C9_UnitSendsOnceAndEnds ==
    /\ []UnitSendsOnce
    /\ \A q \in QueryIds : (task[q].pc = "running") ~> (task[q].pc = "done")

\* A unit ended after a send into the channel of a view that was dropped.
C9_Witness ==
    /\ self = Dropped
    /\ \E q \in QueryIds :
         /\ task[q].pc = "done"
         /\ task[q].sends = 1
         /\ task[q].sent = "closed"

\* A result waits on the receiving end the view stores.
ResultPresent == self.receiver # None /\ chan[self.receiver[1]].queue # <<>>

\* A completion pulse waits on the refresh trigger the StatusView stores.
PulsePresent ==
    /\ self.kind = "Status"
    /\ self.refresh_trigger # None
    /\ trig[self.refresh_trigger[1]].queue # <<>>

\* What update() does with the result m it received: loading cleared; on
\* success the model stored and its lines / items rebuilt from it; on failure
\* an error string naming the failure stored and the model left as it was.
AppliesResult(m) ==
    /\ ~self'.loading
    /\ self'.receiver = self.receiver
    /\ chan'[self.receiver[1]].queue = Tail(chan[self.receiver[1]].queue)
    /\ IF m.ok
       THEN /\ Model(self') = Some(m.val)
            /\ self'.error = self.error
            /\ self.kind = "Diff" => self'.lines = render_diff_to_lines(self.source, m.val)
            /\ self.kind = "Status" =>
                 /\ self'.items = build_items(self').items
                 /\ Len(self'.items) >= Len(m.val.staged) + Len(m.val.unstaged)
                                        + Len(m.val.untracked) + Len(m.val.conflicted)
       ELSE /\ self'.error # None
            /\ self'.error[1][2] = m.val
            /\ Model(self') = Model(self)
            /\ self.kind = "Diff" => self'.lines = self.lines
            /\ self.kind = "Status" => self'.items = self.items

\* What update() does on the stored result channel, as the claim states it.
ReceivesOnce ==
    IF ResultPresent
    THEN AppliesResult(Head(chan[self.receiver[1]].queue))
    ELSE self' = self /\ chan' = chan

\* C10 as stated: every update() of a DiffView or a StatusView applies the
\* result waiting on the stored channel, and leaves the view unchanged when
\* none waits.
C10_UpdateOnlyReceives ==
    [][(DiffView_update \/ StatusView_update) => ReceivesOnce]_vars

\* C10: DiffView.update() and, while no completion pulse waits on the refresh
\* trigger, StatusView.update() make one receive attempt on the stored result
\* channel: a result present clears loading and is stored (success: model and
\* lines / items; failure: error string, model unchanged), none present leaves
\* the view unchanged.  A StatusView.update() that finds a pulse drops the
\* trigger and starts a new query first: the stored receiver is replaced, a
\* result waiting on the old one is discarded, loading is set, and model, items
\* and error stay.
C10_UpdateReceivesOnce ==
    [][(DiffView_update \/ StatusView_update) =>
         IF PulsePresent
         THEN /\ started' = started + 1
              /\ self' = [self EXCEPT !.refresh_trigger = None,
                                      !.receiver = Some(started'),
                                      !.loading = TRUE]
              /\ applied' = applied
              /\ ~trig'[self.refresh_trigger[1]].rx
         ELSE ReceivesOnce]_vars

\* update() has stored the first result of a view: loading is cleared, the
\* channel is drained, and the model or the error is set.
C10_Witness ==
    /\ applied = 1
    /\ self.kind \in {"Diff", "Status"}
    /\ ~self.loading
    /\ self.receiver = Some(1) /\ chan[1].queue = <<>>
    /\ Model(self) # None \/ self.error # None

\* ================================================================== claims: views
\* No query was ever started on the view: it stores no receiving end.
NoReceiver ==
    \/ self.kind = "Help"
    \/ self.kind \in {"Main", "Diff", "Status"} /\ self.receiver = None

\* A call of update() on the view, of whichever kind it is.
AnyUpdate == MainView_update \/ DiffView_update \/ StatusView_update \/ HelpView_update

\* C11: update() on a MainView, DiffView, StatusView or HelpView that stores no
\* receiver returns Ok and changes no field of the view (nor a channel or unit).
C11_UpdateBeforeStartIsNoOp ==
    [][AnyUpdate /\ NoReceiver =>
         /\ self' = self
         /\ run_result' = None
         /\ <<bvars_but_self, cvars>>' = <<bvars_but_self, cvars>>]_vars

\* A view without receiver in a state other than its initial one, where an
\* update() that changed a field would show: a HelpView scrolled down.
C11_Witness ==
    /\ NoReceiver
    /\ self.kind = "Help"
    /\ self.scroll_offset > 0
    /\ run_result = None

\* s is an initial segment of t.
IsPrefix(s, t) == Len(s) <= Len(t) /\ s = SubSeq(t, 1, Len(s))

\* The commits received so far and those still queued, in arrival order.
Arrived == self.commits \o Flatten(cchan.queue)

\* C12: for every chunk size >= 1 and repository state, the chunks walk sends,
\* concatenated in arrival order, are at every moment an initial segment of the
\* history (nothing missing in between, duplicated or reordered), and once walk
\* has returned Ok they are the sequence load_all returns.
C12_ChunksConcatenateToLoadAll ==
    /\ chunk_size >= 1
    /\ IsPrefix(Flatten(walker.sent), repo.history)
    /\ self.kind = "Main" =>
         /\ Arrived = Flatten(walker.sent)
         /\ walker.result = Some("Ok") =>
              /\ load_all(repo).ok
              /\ Arrived = load_all(repo).val

\* A walk over five commits returned Ok after three chunks, and the view has
\* received them all.
C12_Witness ==
    /\ self.kind = "Main"
    /\ Len(repo.history) = MaxCommits
    /\ walker.result = Some("Ok")
    /\ Len(walker.sent) = 3
    /\ self.commits = load_all(repo).val

\* ceil(k / n)
CeilDiv(k, n) == (k + n - 1) \div n

\* C13: every chunk sent is non-empty and has at most chunk_size commits, every
\* chunk but the last sent has exactly chunk_size, and a walk over k commits
\* that returned Ok with the receiver alive has sent ceil(k / chunk_size) chunks.
C13_ChunkSizes ==
    /\ \A i \in 1..Len(walker.sent) :
         /\ Len(walker.sent[i]) >= 1
         /\ Len(walker.sent[i]) <= chunk_size
         /\ i < Len(walker.sent) => Len(walker.sent[i]) = chunk_size
    /\ walker.result = Some("Ok") /\ walker.refused = 0 =>
         Len(walker.sent) = CeilDiv(Len(repo.history), chunk_size)

\* Chunk size 2 over 5 commits: chunks of sizes 2, 2, 1 in that order.
C13_Witness ==
    /\ chunk_size = 2
    /\ Len(repo.history) = 5
    /\ walker.result = Some("Ok")
    /\ walker.sent = << <<1, 2>>, <<3, 4>>, <<5>> >>

\* C14: once the receiving end of the commit channel is dropped nothing more is
\* enqueued, the walk never panics, and a walk in progress ends.
C14_DroppedReceiverEndsWalk ==
    /\ [](walker.pc \in {"none", "walking", "remaining", "done"})
    /\ [](~cchan.rx => cchan.queue = <<>>)
    /\ [][~cchan.rx => walker'.sent = walker.sent]_vars
    /\ (walker.pc \in {"walking", "remaining"}) ~> (walker.pc = "done")

\* The view was dropped during the walk: the walk broke out of its loop at the
\* refused send, before the end of the history, and returned.
C14_Witness ==
    /\ self = Dropped
    /\ walker.pc = "done"
    /\ walker.refused >= 1
    /\ walker.next <= Len(repo.history)

\* C15: MainView.update() takes every chunk queued at that moment, those that
\* arrived while another view was on top included, and appends them to commits
\* in arrival order: the queue is empty afterwards and commits has grown by the
\* concatenation of the chunks.
C15_UpdateDrainsAllChunks ==
    [][MainView_update /\ self.receiver # None =>
         /\ self'.commits = self.commits \o Flatten(cchan.queue)
         /\ cchan'.queue = <<>>
         /\ drain_trace'.taken = Len(cchan.queue)
         /\ drain_trace'.taken_behind = drain_trace.behind
         /\ IsPrefix(self'.commits, repo.history)]_vars

\* One update() took two or more chunks that had queued up while the MainView
\* was covered.
C15_Witness ==
    /\ self.kind = "Main"
    /\ ~covered
    /\ drain_trace.taken >= 2
    /\ drain_trace.taken_behind >= 2
    /\ cchan.queue = <<>>
    /\ Len(self.commits) >= 2

\* C16: no failure of a background query (commit walk, diff load, status load)
\* ends the loop of run(): every update() returns Ok, so does App::update, and
\* run() has not returned.
C16_FailureNeverStopsLoop ==
    /\ run_result = None
    /\ self.kind \in {"Diff", "Status"} /\ self.error # None => run_result # Some("Err")

\* A diff or status query failed and update() stored its error, a commit walk
\* may have failed as well, and the loop still runs.
C16_Witness ==
    /\ self.kind \in {"Diff", "Status"}
    /\ self.error # None
    /\ ~self.loading
    /\ run_result = None

\* C17 as stated: once the commit stream has delivered commits to the MainView,
\* or has ended and the view has been updated, loading is cleared, and a failed
\* walk has its error in the view's error field.
C17_MainViewClearsLoading ==
    self.kind = "Main" =>
        /\ self.commits # <<>> => ~self.loading
        /\ (walker.result = Some("Err") /\ self.commits # <<>>) => self.error # None

\* The query the view started last has not had its result applied.
InFlight == started # applied

\* A step that starts one query of the given kind on the view.
StartsQuery(kind) ==
    /\ started' = started + 1
    /\ task'[started'].pc = "running"
    /\ task'[started'].kind = kind
    /\ self'.receiver = Some(started')
    /\ self'.loading

\* A step that starts no query and leaves the view as it is.
StartsNothing ==
    /\ started' = started
    /\ task' = task
    /\ chan' = chan
    /\ self' = self

\* C18: the loading flag of a DiffView says that its last query is in flight,
\* and an activation of the DiffView (when pushed, or when the view above it
\* is popped) starts one diff query if it has no model and is not loading, and
\* nothing otherwise.
C18_DiffActivationStartsQueryIff ==
    /\ [](self.kind = "Diff" => (self.loading <=> InFlight))
    /\ [][(DiffView_on_activate \/ pop_to_diff) =>
            IF self.diff = None /\ ~self.loading
            THEN StartsQuery("Diff")
            ELSE StartsNothing]_vars

\* A DiffView that holds its model after one query and is on top again:
\* its activations have started no second query.
C18_Witness ==
    /\ self.kind = "Diff"
    /\ ~covered
    /\ self.diff # None
    /\ started = 1
    /\ applied = 1
    /\ task[1].pc = "done"

\* The largest scroll offset of a view: max(lines.len() - 1, 0).
MaxScroll(v) == IF Len(v.lines) > 0 THEN Len(v.lines) - 1 ELSE 0

\* C19: the scroll offset of a DiffView or HelpView lies in 0..max(lines.len()-1, 0)
\* after every sequence of keys and updates; with no lines it is 0.
C19_ScrollOffsetClamped ==
    self.kind \in {"Diff", "Help"} =>
        /\ self.scroll_offset >= 0
        /\ self.scroll_offset <= MaxScroll(self)
        /\ self.lines = <<>> => self.scroll_offset = 0

\* A DiffView with its lines, scrolled to the last of them.
C19_Witness ==
    /\ self.kind = "Diff"
    /\ Len(self.lines) >= 2
    /\ self.scroll_offset = Len(self.lines) - 1

\* An activation of the StatusView: by its push, or by the pop of the view
\* above it.
StatusActivation == StatusView_on_activate \/ pop_to_status

\* C20 as stated: every activation of the StatusView and every 'r' starts a
\* status query.
C20_EveryActivationStartsQuery ==
    [][(StatusActivation \/ StatusView_key_r) => StartsQuery("Status")]_vars

\* C20: 'r' always starts a status query; an activation starts one when the
\* view has no snapshot and is not loading, and starts nothing otherwise.
C20_ActivationOrRefreshStartsQuery ==
    [][/\ StatusView_key_r => StartsQuery("Status")
       /\ StatusActivation =>
            IF self.status = None /\ ~self.loading
            THEN StartsQuery("Status")
            ELSE StartsNothing]_vars

\* A StatusView that got its snapshot from the query of its activation and is
\* loading again after 'r' (no stage unit ran, so no pulse started the query).
C20_Witness ==
    /\ self.kind = "Status"
    /\ self.status # None
    /\ self.loading
    /\ started = 2
    /\ applied = 1
    /\ stage_started = 0
C22_FailedStageStillRefreshes ==
    /\ [][\A k \in StageIds : stage_unit(k) =>
            /\ self' = self
            /\ stage_task'[k].sends = 1
            /\ trig[k].rx => trig'[k].queue = Append(trig[k].queue, "()")]_vars
    /\ [][StatusView_update /\ PulsePresent => StartsQuery("Status")]_vars

\* A mutation failed, its pulse was delivered and observed, and the refresh
\* query is started; the error field was not written.
C22_Witness ==
    /\ self.kind = "Status"
    /\ stage_task[1].pc = "done"
    /\ ~stage_task[1].ok
    /\ stage_task[1].sent = "delivered"
    /\ self.refresh_trigger = None
    /\ self.receiver = Some(2)
    /\ self.loading
    /\ self.error = None

\* A step of a background unit: the load of a diff or status, a stage or
\* unstage, a step of the commit walk.
UnitStep ==
    \/ \E q \in QueryIds : load_unit(q)
    \/ \E k \in StageIds : stage_unit(k)
    \/ walk_next
    \/ walk_remaining

\* A step of the render loop on the view: a key, an update, an activation, a
\* push over it, the pop that uncovers it, its drop.
RenderLoopStep ==
    \/ DiffView_on_activate \/ DiffView_update \/ push_over_diff \/ pop_to_diff
    \/ \E key \in DiffKeys : DiffView_handle_key(key)
    \/ StatusView_on_activate \/ StatusView_key_r \/ StatusView_key_u
    \/ StatusView_update \/ push_over_status \/ pop_to_status
    \/ \E key \in StatusKeys : StatusView_handle_key(key)
    \/ MainView_on_activate \/ MainView_update \/ push_over_main \/ pop_to_main
    \/ \E key \in HelpKeys : HelpView_handle_key(key)
    \/ HelpView_update
    \/ drop_view

\* C30: a step of a background unit changes no field of the view: it changes
\* its own position and the queue of its channel (and the ghost count of
\* chunks sent while the view is covered), nothing else; every step that
\* changes a field of the view is a step of the render loop.
C30_UnitsTouchOnlyChannels ==
    /\ [][UnitStep =>
            /\ self' = self
            /\ UNCHANGED <<started, stage_started, applied, covered, repo, chunk_size,
                           run_result, mvars>>
            /\ \A c \in QueryIds : chan'[c].rx = chan[c].rx
            /\ \A t \in StageIds : trig'[t].rx = trig[t].rx
            /\ cchan'.rx = cchan.rx]_vars
    /\ [][self' # self => RenderLoopStep /\ ~UnitStep]_vars

\* Units have run beside a view: a failed stage has signalled and a status
\* result has been stored in the view by its update().
C30_Witness ==
    /\ self.kind = "Status"
    /\ stage_task[1].pc = "done"
    /\ ~stage_task[1].ok
    /\ \E q \in QueryIds : task[q].pc = "done"
    /\ self.status # None
    /\ self.error = None

\* ------------------------------------------------------------------ C23..C27
\* The same letter in either case.
SameLetter(a, b) ==
    \/ a = b
    \/ {a, b} \in {{"f", "F"}, {"i", "I"}, {"a", "A"}, {"g", "G"}, {"d", "D"}, {"q", "Q"}}

\* q occurs in s as a substring, the case of letters ignored.
Occurs(q, s) ==
    \E i \in 0..(Len(s) - Len(q)) : \A j \in 1..Len(q) : SameLetter(s[i + j], q[j])

\* The commit at place id matches the query q in its summary, author or short id.
Matches(id, q) ==
    \/ Occurs(q, Commit(id).summary)
    \/ Occurs(q, Commit(id).author)
    \/ Occurs(q, Commit(id).short_id)

\* f lists, in rising order and once each, exactly the places (from 0) of the
\* commits that match q.
IsFilterOf(f, commits, q) ==
    /\ \A n \in 1..(Len(f) - 1) : f[n] < f[n + 1]
    /\ {f[n] : n \in 1..Len(f)} = {i \in 0..(Len(commits) - 1) : Matches(commits[i + 1], q)}

\* A keystroke of search input: a character typed or removed while the
\* MainView takes search input.
Keystroke ==
    /\ self.kind = "Main"
    /\ self.search_mode = "Active"
    /\ \E key \in CharKeys \cup {"Backspace"} : MainView_handle_key(key)

\* C23: after every keystroke of search input the filtered places are, for a
\* non-empty query, exactly the rising places of the loaded commits whose
\* summary, author or short id contains the query, case ignored, and for an
\* empty query none; the query "fI" over the summaries "Fi", "Ad", "fI" gives
\* the 1st and the 3rd.
C23_FilterIsExactMatchSet ==
    /\ [][Keystroke =>
            IF self'.search_query = <<>> THEN self'.filtered_commits = <<>>
            ELSE IsFilterOf(self'.filtered_commits, self'.commits, self'.search_query)]_vars
    /\ [][Keystroke /\ self'.search_query = <<"f", "I">> /\ self'.commits = <<1, 2, 3>> =>
            self'.filtered_commits = <<0, 2>>]_vars

\* The query "fI" was typed over the first three commits: the 1st and the 3rd
\* are listed, the 1st by a summary in another case.
C23_Witness ==
    /\ self.kind = "Main"
    /\ self.search_mode = "Active"
    /\ self.search_query = <<"f", "I">>
    /\ self.commits = <<1, 2, 3>>
    /\ self.filtered_commits = <<0, 2>>

\* Enter pressed while the MainView takes search input.
EnterInSearch ==
    /\ self.kind = "Main"
    /\ self.search_mode = "Active"
    /\ MainView_handle_key("Enter")

\* C24 as stated: Enter during search input leaves input mode and keeps the
\* filter applied: the query and the filtered places stay, and the sequence
\* displayed, which navigation and commit selection work on, is still the
\* filtered one.
C24_EnterKeepsFilterApplied ==
    [][EnterInSearch =>
         /\ self'.search_mode = "Inactive"
         /\ self'.search_query = self.search_query
         /\ self'.filtered_commits = self.filtered_commits
         /\ displayed_commits(self') = displayed_commits(self)
         /\ displayed_len(self') = displayed_len(self)
         /\ selected_commit(self') = selected_commit(self)]_vars

\* Escape pressed on the MainView, in search input or outside it.
EscapePressed ==
    /\ self.kind = "Main"
    /\ MainView_handle_key("Esc")

\* C25 as stated: Escape at any point of a search, during input or after
\* Enter, clears the query and the filtered places and shows all commits.
C25_EscapeClearsSearch ==
    [][EscapePressed =>
         /\ self'.search_query = <<>>
         /\ self'.filtered_commits = <<>>
         /\ displayed_commits(self') = self'.commits]_vars

\* The selection is a place of the sequence displayed.
SelectionValid(v) ==
    /\ v.selected # None
    /\ v.selected[1] < Len(displayed_commits(v))

C27_FilterIdempotent ==
    /\ [](self.kind = "Main" =>
            LET once == update_search_filter(self) IN
            /\ update_search_filter(once).filtered_commits = once.filtered_commits
            /\ update_search_filter(once) = once)
    /\ [][Keystroke =>
            update_search_filter(self').filtered_commits = self'.filtered_commits]_vars

\* A filter with two results was applied by typing: applying it again is what
\* the claim is about.
C27_Witness ==
    /\ self.kind = "Main"
    /\ self.search_mode = "Active"
    /\ self.search_query = <<"f">>
    /\ Len(self.filtered_commits) = 2
    /\ update_search_filter(self) = self

\* ------------------------------------------------------------------ C28..C29
\* C28: a PopView handled while one view is on the stack changes neither the
\* stack nor any other field of the App (running included), and the handler
\* returns Ok: when the Action comes from a call of handle_action, and when it
\* comes from a key through handle_event.
C28_PopAtRootIgnored ==
    /\ [][App_handle_action([type |-> "PopView"]) /\ Len(app.view_stack) = 1 =>
            /\ app' = app
            /\ inbox'.waiting = inbox.waiting
            /\ handled'.result = "Ok"]_vars
    /\ [][\A event \in ShellEvents :
            App_handle_event(event) /\ Len(app.view_stack) = 1
              /\ handled'.action = [type |-> "PopView"] =>
            /\ app' = app
            /\ handled'.result = "Ok"]_vars

\* PopView was handled with the MainView alone on the stack: the stack is as
\* it was, Ok was returned and the application is running.
C28_Witness ==
    /\ handled.action = [type |-> "PopView"]
    /\ handled.before = <<"Main">>
    /\ handled.result = "Ok"
    /\ app.view_stack = <<"Main">>
    /\ app.running

\* The view on top has a message waiting on its channels while run() is in
\* its loop.
Pending ==
    /\ loop.pc \notin {"init", "returned"}
    /\ app.view_stack # <<>>
    /\ inbox.waiting[Len(app.view_stack)] > 0

\* A key of the user is queued or being handled.
KeyWaiting ==
    \/ \E n \in 1..Len(events.queue) : events.queue[n].type = "Key"
    \/ loop.event # None /\ loop.event[1].type = "Key"

\* The steps of run() follow the loop: update, draw, wait for one event,
\* handle it, update again.
LoopOrder ==
    loop'.pc # loop.pc =>
        <<loop.pc, loop'.pc>> \in
            {<<"init", "update">>, <<"update", "draw">>, <<"draw", "next">>,
             <<"next", "handle">>, <<"handle", "update">>}
            \cup {<<p, "returned">> : p \in {"init", "update", "draw", "handle"}}

\* C29: a message that waits on a channel of the view on top is taken by an
\* update() of that view, unless a key of the user arrives first or run() has
\* ended (a failed draw): with no input at all, always. The event source sends
\* a tick at every poll that times out while its channel lives, one event is
\* taken per iteration, and the steps of run() go update, draw, wait, handle.
C29_IdleLoopConsumesResults ==
    /\ \A k \in 0..MaxSends :
         (Pending /\ inbox.taken = k) ~> (inbox.taken > k \/ KeyWaiting \/ run_result # None)
    /\ [][LoopOrder]_vars
    /\ [][EventHandler_tick /\ events.rx =>
            events'.queue = Append(events.queue, [type |-> "Tick"])]_vars
    /\ [][run_next => /\ Len(events'.queue) = Len(events.queue) - 1
                      /\ loop'.event = Some(Head(events.queue))]_vars

\* With the MainView alone on the stack and no key waiting, every chunk sent
\* was taken by an update() and run() is still in its loop.
C29_Witness ==
    /\ app.view_stack = <<"Main">>
    /\ run_result = None
    /\ ~KeyWaiting
    /\ inbox.sent = MaxSends
    /\ inbox.taken = MaxSends
    /\ loop.pc = "draw"


\* ================================================================== claims: process
\* The process has ended: main() returned or called exit, or a panic ended it.
Exited == loop.pc \in {"exited", "panicked"}

\* The terminal is in the mode it had before ui::terminal::init.
OriginalMode == ~terminal.raw /\ ~terminal.alternate

\* C31: once ui::terminal::init has changed the mode of the terminal, the
\* process does not end before ui::terminal::restore was called, on every path:
\* quit, failure of App::init, an Err out of the loop of run(), a panic in that
\* loop; and when the last call of restore returned Ok the terminal is in its
\* original mode at the end of the process.
C31_TerminalRestoredOnEveryExit ==
    (Exited /\ terminal.entered) =>
        /\ terminal.restored # "none"
        /\ terminal.restored = "Ok" => OriginalMode

\* The process ended by a panic while a second view was on the stack, after the
\* terminal was put into raw mode and the alternate screen, and the hook left
\* the terminal in its original mode.
C31_Witness ==
    /\ loop.pc = "panicked"
    /\ Len(app.view_stack) >= 2
    /\ terminal.entered
    /\ terminal.restored = "Ok"
    /\ OriginalMode

\* C32: Ctrl+C given to the shell stops the application whatever view is on
\* top: the shell handles it itself, the view on top is not given the key (any
\* other key is given to it), the stack and the channels of the views are as
\* before, Ok is returned; and no handler makes running true again.
C32_CtrlCStopsFromAnyState ==
    /\ [][App_handle_event([type |-> "Key", key |-> "Ctrl+C"]) =>
            /\ ~app'.running
            /\ ~handled'.delegated
            /\ handled'.action = [type |-> "None"]
            /\ handled'.result = "Ok"
            /\ app'.view_stack = app.view_stack
            /\ inbox' = inbox]_vars
    /\ [][\A key \in ShellKeys \ {"Ctrl+C"} :
            App_handle_event([type |-> "Key", key |-> key]) => handled'.delegated]_vars
    /\ [][~app.running => ~app'.running]_vars

\* Ctrl+C was handled with a second view on the stack: the application is
\* stopped, the key went to no view and the stack is as it was.
C32_Witness ==
    /\ handled.key = "Ctrl+C"
    /\ ~handled.delegated
    /\ ~app.running
    /\ Len(app.view_stack) = 2
    /\ handled.before = app.view_stack

\* C33: Esc given to the shell while a pushed view (Status, Diff or Help) is on
\* top makes that view return PopView, and the view beneath it is on top again.
C33_EscClosesPushedView ==
    [][App_handle_event([type |-> "Key", key |-> "Esc"]) /\ Len(app.view_stack) >= 2 =>
          /\ handled'.action = [type |-> "PopView"]
          /\ app'.view_stack = SubSeq(app.view_stack, 1, Len(app.view_stack) - 1)]_vars

\* The place of a view kind in the order Main, Status, Diff, Help.
KindOrder(kind) ==
    CASE kind = "Main" -> 1 [] kind = "Status" -> 2 [] kind = "Diff" -> 3 [] OTHER -> 4

\* C35: in run(), once App::init has succeeded, the stack has the MainView at
\* the bottom and holds its views in the order Main, Status, Diff, Help, each
\* kind at most once (so the HelpView only on top), and is at most 4 deep.
C35_StackShapeUnderShell ==
    app.repo # None =>
        /\ app.view_stack # <<>>
        /\ app.view_stack[1] = "Main"
        /\ \A i, j \in 1..Len(app.view_stack) :
             i < j => KindOrder(app.view_stack[i]) < KindOrder(app.view_stack[j])
        /\ Len(app.view_stack) <= 4

\* The deepest stack the keys build: 's', Enter on a file, '?'.
C35_Witness ==
    /\ app.view_stack = <<"Main", "Status", "Diff", "Help">>
    /\ loop.pc = "update"

\* ================================================================== claims: hooks
\* No view of stack s is active.
NoneActive(s) == \A i \in 1..Len(s) : ~s[i].activated

\* The view on top of s is active and no other.
TopActive(s) == \A i \in 1..Len(s) : s[i].activated <=> i = Len(s)

\* Between the calls of the manager the top of the stack is the one active
\* view; inside a call the view taken off the stack is active until its
\* on_deactivate ran, and after that no view is until on_activate ran.
OneActive ==
    CASE pc = "idle" -> TopActive(view_stack)
      [] pc \in {"pop_deactivate", "switch_deactivate"} ->
           NoneActive(view_stack) /\ old_view.activated
      [] OTHER -> NoneActive(view_stack) /\ ~arg.activated

\* The step invokes hook h: it is the last View method the call has invoked.
HookStep(h) ==
    /\ pc' # pc
    /\ calls' # <<>>
    /\ Len(calls') = (IF pc = "idle" THEN 1 ELSE Len(calls) + 1)
    /\ calls'[Len(calls')].hook = h

\* The step invokes a hook that returns an error.
HookFails ==
    /\ result' = "err"
    /\ HookStep("on_activate") \/ HookStep("on_deactivate")

\* C36: as long as no hook fails, after every completed push, pop or switch the
\* top of the stack is active and no other view is, and every hook finds its
\* view in the other state: on_activate is invoked on an inactive view and
\* on_deactivate on an active one.
C36_OneActiveHooksAlternate ==
    /\ [][(OneActive /\ ~HookFails) => OneActive']_vars
    /\ [][(OneActive /\ ~HookFails /\ HookStep("on_activate")) =>
            /\ ~view_stack[Len(view_stack)].activated
            /\ view_stack'[Len(view_stack)].activated]_vars
    /\ [][(OneActive /\ ~HookFails /\ HookStep("on_deactivate")) =>
            IF pc = "idle"
            THEN /\ view_stack[Len(view_stack)].activated
                 /\ ~view_stack'[Len(view_stack)].activated
            ELSE old_view.activated]_vars

\* A pop has completed on a stack of three views: the view that was covered
\* is on top and active again, the root is not.
C36_Witness ==
    /\ pc = "idle"
    /\ op = "pop"
    /\ result = "ok"
    /\ Len(before) = 3
    /\ Len(view_stack) = 2
    /\ TopActive(view_stack)
    /\ Len(calls) = 2

\* C37: a MainView driven as the application drives it starts its commit
\* stream only when it has never started one (no receiver stored, no walker
\* spawned, no commit loaded), so at most once, also when it is activated again
\* after a view over it was popped; and its commits are at all times the
\* beginning of the history, each commit once.
C37_StreamStartsOnce ==
    /\ [][(self.kind = "Main" /\ MainView_start_loading
              /\ <<self, cchan, walker>>' # <<self, cchan, walker>>) =>
            /\ self.receiver = None
            /\ walker.pc = "none"
            /\ self.commits = <<>>]_vars
    /\ [](self.kind = "Main" =>
            /\ IsPrefix(self.commits, repo.history)
            /\ \A i, j \in 1..Len(self.commits) :
                 self.commits[i] = self.commits[j] => i = j)

\* The MainView is current again after a view over it was popped, a chunk that
\* arrived meanwhile waits on its channel, and no commit was loaded before:
\* the activation did not start the stream again.
C37_Witness ==
    /\ self.kind = "Main"
    /\ ~covered
    /\ drain_trace.behind > 0
    /\ self.commits = <<>>
    /\ self.loading
    /\ walker.sent # <<>>

\* ================================================================== claims: snapshots
\* The selection of the StatusView v refers to one of its items.
SelectionInItems(v) == v.selected # None /\ v.selected[1] < Len(v.items)

\* C38: after an update() of the StatusView that leaves a non-empty item
\* list, the selected index refers to an item of that list.
C38_SelectionValidAfterRebuild ==
    [][(self.kind = "Status" /\ StatusView_update /\ self'.items # <<>>) =>
          SelectionInItems(self')]_vars

\* Every unit has ended and update() has nothing left to receive.
Quiescent ==
    /\ self.kind = "Status"
    /\ \A q \in QueryIds : task[q].pc # "running"
    /\ \A k \in DOMAIN stage_task : stage_task[k].pc # "running"
    /\ self.receiver # None => chan[self.receiver[1]].queue = <<>>
    /\ self.refresh_trigger # None => trig[self.refresh_trigger[1]].queue = <<>>

\* C34: after several stage/unstage presses, once every unit has ended and
\* update() has consumed every pending message, the snapshot on display comes
\* from a query that read the repository after all of those mutations had run.
C34_SnapshotAfterAllMutations ==
    (/\ Quiescent
     /\ stage_started >= 2
     /\ self.status # None
     /\ self.error = None
     /\ ~self.loading
     /\ applied > 0) =>
        task[applied].saw = stage_started

\* C39: a stored load error outlives a later successful load.  A DiffView's
\* error, once set, stays set while the view lives; a StatusView's error is
\* cleared only by the stage/unstage key on a file entry; and a view that
\* holds both a model and an error draws the error panel.
C39_ErrorOutlivesSuccessfulLoad ==
    /\ [][(self.kind = "Diff" /\ self.error # None /\ self'.kind = "Diff") =>
             self'.error # None]_vars
    /\ [][(self.kind = "Status" /\ self.error # None /\ self'.kind = "Status"
             /\ self'.error = None) =>
             (StatusView_key_u /\ on_file_entry(self))]_vars
    /\ [](self.kind = "Diff" /\ self.diff # None /\ self.error # None /\ ~self.loading =>
             DiffView_draw(self) = "error")
    /\ [](self.kind = "Status" /\ self.status # None /\ self.error # None =>
             StatusView_draw(self) = "error")

\* A DiffView whose first load failed and whose second load succeeded.
C39_Witness ==
    /\ self.kind = "Diff"
    /\ applied = 2
    /\ task[1].pc = "done" /\ task[2].pc = "done"
    /\ self.diff # None
    /\ self.error # None
    /\ ~self.loading
    /\ DiffView_draw(self) = "error"

\* The view holds nothing to show yet.
NoData(v) ==
    CASE v.kind = "Main" -> v.commits = <<>>
      [] v.kind = "Status" -> v.status = None
      [] v.kind = "Diff" -> v.diff = None
      [] OTHER -> FALSE

\* The shell with the given stack, every view with an empty channel.
ShellOver(stack) ==
    [Shell EXCEPT !.app.view_stack = stack, !.waiting = [i \in DOMAIN stack |-> 0]]

\* The stacks of the application in which a view of this kind is on top
\* (app.rs:44-45,96-104,115-130: Status and Help are pushed by a key of the
\* view below, a Diff from the MainView or the StatusView).
StacksUnder(kind) ==
    CASE kind = "Main" -> {<<"Main">>}
      [] kind = "Status" -> {<<"Main", "Status">>}
      [] kind = "Diff" -> {<<"Main", "Diff">>, <<"Main", "Status", "Diff">>}
      [] kind = "Help" -> {<<"Main", "Help">>, <<"Main", "Status", "Help">>,
                           <<"Main", "Diff", "Help">>}
      [] OTHER -> {}

\* C40: a push followed by a pop gives back the stack as it was; the view
\* underneath is left as it is by the push and while it is covered, with its
\* model, selection or scroll position and the channel it stores, as long as it
\* is not dropped; and the re-activation at the pop either changes nothing or,
\* for a view with no data and not loading, starts one query and changes
\* nothing else.
C40_PushPopRestores ==
    /\ [](\A stack \in StacksUnder(self.kind) : \A kind \in ViewKinds :
            LET s == ShellOver(stack)
                t == pop(push(s, kind))
            IN  /\ t.app.view_stack = stack
                /\ t.waiting = s.waiting
                /\ t.result = "Ok")
    /\ [][(~covered /\ covered') =>
             (self' = self /\ started' = started /\ walker' = walker)]_vars
    /\ [][(covered /\ covered' /\ self'.kind = self.kind) => self' = self]_vars
    /\ [][(covered /\ ~covered') =>
             \/ self' = self /\ started' = started /\ walker' = walker
             \/ /\ NoData(self)
                /\ ~self.loading
                /\ self' = [self EXCEPT !.receiver = self'.receiver, !.loading = TRUE]
                /\ self'.receiver # None]_vars

\* A MainView that had commits when it was covered, got more chunks queued
\* while covered, and is current again with the same stream.
C40_Witness ==
    /\ self.kind = "Main"
    /\ ~covered
    /\ drain_trace.behind > 0
    /\ self.commits # <<>>
    /\ cchan.queue # <<>>
    /\ self.receiver # None
====
